---- MODULE Spec2Model ----
(***************************************************************************)
(* Model of @comake/openapi-operation-executor: the OpenApiOperationExecutor *)
(* (operation lookup, base path, OAuth2 stage stepper) and the               *)
(* OpenApiAxiosParamFactory (security negotiation, parameter placement,      *)
(* request assembly).                                                        *)
(*                                                                           *)
(* JavaScript values are modelled as follows.  Texts are TLA+ strings, built *)
(* with \o as the code builds them with template literals.  An optional      *)
(* value (`x?: T`) is a sequence of length 0 (undefined) or 1.  A JavaScript *)
(* object used as an ordered map is a sequence of <<key, value>> pairs with  *)
(* distinct keys, in insertion order.  A path template is a sequence of      *)
(* segments, a `{name}` token being one segment.                             *)
(***************************************************************************)
EXTENDS Integers, Sequences, FiniteSets, TLC

VARIABLES
  openApiDescription,  \* OpenApiOperationExecutor.openApiDescription: <<>> or <<document>>
  dereferencing,       \* documents of setOpenapiSpec calls awaiting RefParser.dereference
  configuration,       \* the caller's configuration objects, by reference
  calls                \* the executor calls in flight, each with its own factory

vars == <<openApiDescription, dereferencing, configuration, calls>>

-----------------------------------------------------------------------------
(* Bounds of the model. *)

\* setOpenapiSpec calls that may be awaiting dereference at the same time
MaxDereferencing == 1
\* alternatives in a list of security requirements
MaxAlternatives == 2
\* schemes named by one security requirement
MaxSchemesPerRequirement == 2
\* the longest parameter list of an operation and the most keys of args
MaxParameters == 2
MaxArgs == 2
\* nodes (arrays, objects and leaves) of a nested argument of jsonParamsToUrlString
MaxNodes == 4

-----------------------------------------------------------------------------
(* Generic helpers: optional values, ordered maps, folds. *)

None == <<>>
Some(v) == <<v>>
IsSome(o) == Len(o) > 0
Get(o) == o[1]

\* `a ?? b` on optional values
Coalesce(a, b) == IF IsSome(a) THEN a ELSE b

Range(s) == {s[i] : i \in DOMAIN s}

MapHas(m, k) == \E i \in DOMAIN m : m[i][1] = k
MapGet(m, k) == m[CHOOSE i \in DOMAIN m : m[i][1] = k][2]
\* `m[k] = v` on a JavaScript object: an existing key keeps its position
MapSet(m, k, v) ==
  IF MapHas(m, k)
    THEN [i \in DOMAIN m |-> IF m[i][1] = k THEN <<k, v>> ELSE m[i]]
    ELSE Append(m, <<k, v>>)
MapKeys(m) == [i \in DOMAIN m |-> m[i][1]]
\* `{ ...a, ...b }`
\* the object without its property key
MapWithout(map, key) ==
  LET Other(entry) == entry[1] # key IN SelectSeq(map, Other)

RECURSIVE MapSpread(_, _)
MapSpread(a, b) ==
  IF b = <<>> THEN a ELSE MapSpread(MapSet(a, b[1][1], b[1][2]), Tail(b))

\* Array.prototype.find as an index: the first position satisfying Test, 0 if none
FindIndex(s, Test(_)) ==
  IF \E i \in DOMAIN s : Test(s[i])
    THEN CHOOSE i \in DOMAIN s : Test(s[i]) /\ \A j \in 1..(i - 1) : ~Test(s[j])
    ELSE 0

RECURSIVE JoinStrings(_, _)
JoinStrings(s, sep) ==
  IF s = <<>> THEN ""
  ELSE IF Len(s) = 1 THEN s[1]
  ELSE s[1] \o sep \o JoinStrings(Tail(s), sep)

\* all sequences over S of length 0..n
SeqsUpTo(S, n) == UNION {[1..k -> S] : k \in 0..n}
\* those without repeated elements (the keys of one JavaScript object)
DistinctSeqsUpTo(S, n) ==
  {s \in SeqsUpTo(S, n) : \A i, j \in DOMAIN s : i # j => s[i] # s[j]}

-----------------------------------------------------------------------------
(* Texts and their encodings.  A conversion is computed on the bytes or the  *)
(* characters of the text; the texts the model uses are listed here with     *)
(* their UTF-8 bytes and their percent-encoding.                             *)

\* Buffer.from(text, 'utf-8') for the user names and passwords of the model
Utf8Bytes(text) ==
  CASE text = "a"   -> <<97>>
    [] text = "ab"  -> <<97, 98>>
    [] text = "abc" -> <<97, 98, 99>>
    [] text = ">"   -> <<62>>
    [] text = "?"   -> <<63>>
    [] text = ">>"  -> <<62, 62>>
    [] text = "??"  -> <<63, 63>>
    [] text = ""    -> <<>>
    [] text = "undefined" -> <<117, 110, 100, 101, 102, 105, 110, 101, 100>>

\* encodeURIComponent for the argument values of the model
encodeURIComponent(text) ==
  CASE text = "read:events" -> "read%3Aevents"
    [] text = "read:events write" -> "read%3Aevents%20write"
    [] text = "a b"         -> "a%20b"
    [] text = "read write"  -> "read%20write"
    [] text = "https://example.com/redirect" -> "https%3A%2F%2Fexample.com%2Fredirect"
    [] OTHER                -> text   \* texts of unreserved characters only

\* A JSONValue is [type, text, items]: a string, number or boolean has its text;
\* an object has its entries <<key, value>> in key order, an array the entries
\* <<index, element>> that Object.keys and indexing give for it.
Digits == <<"0", "1", "2", "3", "4", "5", "6", "7", "8", "9">>
IndexText(i) == Digits[i + 1]
JString(text)  == [type |-> "string",  text |-> text, items |-> <<>>]
JNumber(text)  == [type |-> "number",  text |-> text, items |-> <<>>]
JBoolean(text) == [type |-> "boolean", text |-> text, items |-> <<>>]
JObject(entries) == [type |-> "object", text |-> "", items |-> entries]
JArray(elements) ==
  [type |-> "array", text |-> "",
   items |-> [i \in DOMAIN elements |-> <<IndexText(i - 1), elements[i]>>]]
\* the object whose values are the strings of a map of texts
JStrings(map) == [i \in DOMAIN map |-> <<map[i][1], JString(map[i][2])>>]

\* typeof value === 'object' and Array.isArray(value)
IsObjectType(value) == value.type \in {"object", "array"}
IsArray(value) == value.type = "array"

\* String(value), the conversion a template literal, String.prototype.replace
\* and encodeURIComponent apply to a value
RECURSIVE ToText(_)
ToText(value) ==
  CASE value.type = "object" -> "[object Object]"
    [] value.type = "array" ->
         JoinStrings([i \in DOMAIN value.items |-> ToText(value.items[i][2])], ",")
    [] OTHER -> value.text

Base64Alphabet ==
  << "A","B","C","D","E","F","G","H","I","J","K","L","M","N","O","P",
     "Q","R","S","T","U","V","W","X","Y","Z","a","b","c","d","e","f",
     "g","h","i","j","k","l","m","n","o","p","q","r","s","t","u","v",
     "w","x","y","z","0","1","2","3","4","5","6","7","8","9","+","/" >>

Base64Char(sextet) == Base64Alphabet[sextet + 1]

\* Buffer.prototype.toString('base64'): RFC 4648 base64 with '=' padding,
\* as a sequence of characters
RECURSIVE Base64Chars(_)
Base64Chars(bytes) ==
  IF Len(bytes) = 0 THEN <<>>
  ELSE IF Len(bytes) = 1 THEN
    << Base64Char(bytes[1] \div 4),
       Base64Char((bytes[1] % 4) * 16),
       "=", "=" >>
  ELSE IF Len(bytes) = 2 THEN
    << Base64Char(bytes[1] \div 4),
       Base64Char((bytes[1] % 4) * 16 + bytes[2] \div 16),
       Base64Char((bytes[2] % 16) * 4),
       "=" >>
  ELSE
    << Base64Char(bytes[1] \div 4),
       Base64Char((bytes[1] % 4) * 16 + bytes[2] \div 16),
       Base64Char((bytes[2] % 16) * 4 + bytes[3] \div 64),
       Base64Char(bytes[3] % 64) >>
    \o Base64Chars(SubSeq(bytes, 4, Len(bytes)))

\* String.prototype.replace(/c/g, by) on a sequence of characters
ReplaceChar(chars, c, by) == [i \in DOMAIN chars |-> IF chars[i] = c THEN by ELSE chars[i]]

\* OpenApiClientUtils.base64URLEncode
base64URLEncode(bytes) ==
  JoinStrings(ReplaceChar(ReplaceChar(ReplaceChar(Base64Chars(bytes), "+", "-"), "/", "_"), "=", ""), "")

\* RFC 4648 section 4 base64 (what RFC 7617 Basic authentication uses)
Base64Encode(bytes) == JoinStrings(Base64Chars(bytes), "")

-----------------------------------------------------------------------------
(* Credentials of an OpenApiClientConfiguration.                              *)
(* A configuration is [creds, basePath, baseOptions]: creds is the ordered    *)
(* map of the credential fields that are set (accessToken, bearerToken,       *)
(* apiKey, username, password and the api keys named after a scheme's         *)
(* declared name); a field that is absent from the map is undefined.          *)
(* A credential is a literal (a string, or a promise of one), a function      *)
(* (sync or async) or a function that throws / a promise that rejects.        *)

Literal(text) == [kind |-> "literal", value |-> text]
\* a function whose result shows the arguments it was called with
Function(text) == [kind |-> "function", value |-> text]
Rejecting(text) == [kind |-> "rejects", value |-> text]

\* a resolution that takes the reason of a rejection for the credential
ResolveCredentialSwallowingRejection(cred, args) == [ok |-> TRUE, value |-> cred.value]

\* `typeof v === 'function' ? await v(...args) : await v`
\* args is the list of the actual arguments, as text
ResolveCredential(cred, args) ==
  CASE cred.kind = "literal"  -> [ok |-> TRUE, value |-> cred.value]
    [] cred.kind = "function" -> [ok |-> TRUE, value |-> cred.value \o "(" \o JoinStrings(args, ",") \o ")"]
    [] cred.kind = "rejects"  -> [ok |-> FALSE, value |-> cred.value]

\* `this.configuration[key] !== undefined`
ConfigDefined(config, key) == MapHas(config.creds, key)

-----------------------------------------------------------------------------
(* Security schemes and requirements.                                         *)
(* A scheme is [type, scheme, name, in, flows] ("" where a field does not      *)
(* apply); flows is the ordered map from flow name to [stages, scopes], stages *)
(* being the string-valued keys of the flow object and scopes the optional     *)
(* list of its scope keys.  securitySchemes is an ordered map from scheme name *)
(* to scheme.  A security requirement is a sequence of <<schemeName, scopes>>  *)
(* in key order.                                                               *)

SECURITY_TYPES == [oauth2 |-> "oauth2", apiKey |-> "apiKey", http |-> "http"]
BASIC_SCHEME_TYPE == "basic"
BEARER_SCHEME_TYPE == "bearer"
\* locations under which a cookie counts as a query location
LOCATIONS_WITH_COOKIE_AS_QUERY == [path |-> "path", query |-> "cookie", header |-> "header"]
PARAMETER_AND_SCHEME_LOCATIONS == [path |-> "path", query |-> "query", header |-> "header"]
IGNORED_HEADER_PARAMETERS == {"accept", "content-type", "authorization"}

\* the callback of schemeNames.every(...) in findSecurityReqMatchingConfiguration
SchemeMatchesConfiguration(schemeName, securitySchemes, config) ==
  IF MapHas(securitySchemes, schemeName)
    THEN LET scheme == MapGet(securitySchemes, schemeName) IN
      CASE scheme.type = SECURITY_TYPES.oauth2 -> ConfigDefined(config, "accessToken")
        [] scheme.type = SECURITY_TYPES.http ->
             IF scheme.scheme = BASIC_SCHEME_TYPE
               THEN ConfigDefined(config, "username") /\ ConfigDefined(config, "password")
             ELSE IF scheme.scheme = BEARER_SCHEME_TYPE
               THEN ConfigDefined(config, "bearerToken")
             ELSE FALSE
        [] scheme.type = SECURITY_TYPES.apiKey ->
             ConfigDefined(config, scheme.name) \/ ConfigDefined(config, "apiKey")
        [] OTHER -> FALSE
    ELSE FALSE


\* a find callback that accepts a requirement as soon as one of its schemes matches
SecurityReqMatchesAnyScheme(securityReq, securitySchemes, config) ==
  \E i \in DOMAIN securityReq :
    SchemeMatchesConfiguration(securityReq[i][1], securitySchemes, config)

\* the callback of securityReqs.find(...)
SecurityReqMatchesConfiguration(securityReq, securitySchemes, config) ==
  \A i \in DOMAIN securityReq :
    SchemeMatchesConfiguration(securityReq[i][1], securitySchemes, config)

\* findSecurityReqMatchingConfiguration: the position of the requirement found, 0 if none
findSecurityReqMatchingConfiguration(securityReqs, securitySchemes, config) ==
  LET Matches(securityReq) == SecurityReqMatchesConfiguration(securityReq, securitySchemes, config)
  IN FindIndex(securityReqs, Matches)


\* an api key lookup that prefers the generic apiKey entry
getApiKeyGenericFirst(config, apiKeyName) ==
  LET configurationValue ==
        IF ConfigDefined(config, "apiKey") THEN Some(MapGet(config.creds, "apiKey"))
        ELSE IF ConfigDefined(config, apiKeyName) THEN Some(MapGet(config.creds, apiKeyName))
        ELSE None
  IN IF IsSome(configurationValue)
       THEN ResolveCredential(Get(configurationValue), <<apiKeyName>>)
       ELSE [ok |-> TRUE, value |-> "undefined"]

\* getApiKey: `this.configuration[apiKeyName] ?? this.configuration.apiKey`, resolved
getApiKey(config, apiKeyName) ==
  LET configurationValue ==
        IF ConfigDefined(config, apiKeyName) THEN Some(MapGet(config.creds, apiKeyName))
        ELSE IF ConfigDefined(config, "apiKey") THEN Some(MapGet(config.creds, "apiKey"))
        ELSE None
  IN IF IsSome(configurationValue)
       THEN ResolveCredential(Get(configurationValue), <<apiKeyName>>)
       ELSE [ok |-> TRUE, value |-> "undefined"]


\* an access token lookup that calls the function without the scopes
getAccessTokenWithoutScopes(config, name, scopes) ==
  IF ConfigDefined(config, "accessToken")
    THEN ResolveCredential(MapGet(config.creds, "accessToken"), <<name, "[]">>)
    ELSE [ok |-> TRUE, value |-> "undefined"]

\* getAccessToken
getAccessToken(config, name, scopes) ==
  IF ConfigDefined(config, "accessToken")
    THEN ResolveCredential(MapGet(config.creds, "accessToken"), <<name, "[" \o JoinStrings(scopes, " ") \o "]">>)
    ELSE [ok |-> TRUE, value |-> "undefined"]

\* getBearerToken
getBearerToken(config) ==
  IF ConfigDefined(config, "bearerToken")
    THEN ResolveCredential(MapGet(config.creds, "bearerToken"), <<>>)
    ELSE [ok |-> TRUE, value |-> "undefined"]

\* `${this.configuration.username}`
TemplateText(config, key) ==
  IF ConfigDefined(config, key) THEN MapGet(config.creds, key).value ELSE "undefined"

\* the header value computed by setBasicAuthToHeaderObject
BasicAuthorization(config) ==
  LET credentialsBuffer ==
        Utf8Bytes(TemplateText(config, "username")) \o <<58>> \o Utf8Bytes(TemplateText(config, "password"))
  IN "Basic " \o base64URLEncode(credentialsBuffer)


-----------------------------------------------------------------------------
(* The OpenAPI document (dereferenced).                                       *)
(* document  = [paths, security, servers, securitySchemes]                    *)
(*   paths: sequence of <<pathName, pathItem>> in document order              *)
(*   security, servers, securitySchemes: optional                             *)
(* pathItem  = [entries, parameters, servers]                                 *)
(*   entries: the keys of the path item that hold an object, in document      *)
(*   order, as <<key, operation>>                                             *)
(* operation = [operationId, security, parameters, servers, requestBody]      *)
(*   all optional; requestBody is the list of its content types               *)
(* parameter = [name, in, required];  server = [url, variables]               *)
(* A pathName and a server url are sequences of text segments; a `{x}` token  *)
(* and a `/` of a server url are segments of their own.                       *)

Token(name) == "{" \o name \o "}"

\* String.prototype.replace(new RegExp(escapeRegExp(token), 'gu'), value)
\* and String.prototype.replaceAll(token, value) on a segmented text
ReplaceToken(segments, token, value) ==
  [i \in DOMAIN segments |-> IF segments[i] = token THEN value ELSE segments[i]]

\* url.replace(/\/+$/u, '')
RECURSIVE StripTrailingSlashes(_)
StripTrailingSlashes(segments) ==
  IF segments # <<>> /\ segments[Len(segments)] = "/"
    THEN StripTrailingSlashes(SubSeq(segments, 1, Len(segments) - 1))
    ELSE segments

\* replaceServerVariablesWithDefaults: reduce over Object.entries(serverVariables)
RECURSIVE replaceServerVariablesWithDefaults(_, _)
replaceServerVariablesWithDefaults(url, serverVariables) ==
  IF serverVariables = <<>> THEN url
  ELSE replaceServerVariablesWithDefaults(
         ReplaceToken(url, Token(serverVariables[1][1]), serverVariables[1][2]),
         Tail(serverVariables))

constructBasePath(servers) ==
  LET firstServer == servers[1]
      withoutTrailingSlashes == StripTrailingSlashes(firstServer.url)
  IN IF IsSome(firstServer.variables)
       THEN replaceServerVariablesWithDefaults(withoutTrailingSlashes, Get(firstServer.variables))
       ELSE withoutTrailingSlashes

\* constructBasePathFromGlobalServers
constructBasePathFromGlobalServers(document) ==
  IF IsSome(document.servers) /\ Len(Get(document.servers)) > 0
    THEN constructBasePath(Get(document.servers))
    ELSE <<>>

\* constructServerPathForOperation: optional base path
constructServerPathForOperation(hasServers) ==
  IF IsSome(hasServers.servers) /\ Len(Get(hasServers.servers)) > 0
    THEN Some(constructBasePath(Get(hasServers.servers)))
    ELSE None

\* a merge in which a path-item parameter takes the place of the operation
\* parameter of the same name and location
addParametersPreferringPathItem(parameters, additionalParameters) ==
  LET Redefined(parameter) ==
        \E i \in DOMAIN additionalParameters :
          /\ additionalParameters[i].name = parameter.name
          /\ additionalParameters[i].in = parameter.in
      NotRedefined(parameter) == ~Redefined(parameter)
  IN SelectSeq(parameters, NotRedefined) \o additionalParameters

addParametersIfNotDefined(parameters, additionalParameters) ==
  LET NotDefined(additionalParameter) ==
        ~\E i \in DOMAIN parameters :
           /\ parameters[i].name = additionalParameter.name
           /\ parameters[i].in = additionalParameter.in
  IN parameters \o SelectSeq(additionalParameters, NotDefined)

\* the <<path index, entry index>> pairs whose operation has the operationId
\* a resolution that lets the document's security list take precedence
globalSecurityFirst(operation, document) == Coalesce(document.security, operation.security)

\* `operation.security ?? this.openApiDescription!.security`
operationSecurity(operation, document) == Coalesce(operation.security, document.security)

\* a search that also accepts the operations without an operationId
MatchingOrAnonymousEntries(document, operationId) ==
  UNION { { <<p, e>> : e \in { k \in DOMAIN document.paths[p][2].entries :
                               document.paths[p][2].entries[k][2].operationId
                                 \in {Some(operationId), None} } }
          : p \in DOMAIN document.paths }

\* the (path, method) positions whose operation has the operationId
MatchingEntries(document, operationId) ==
  UNION { { <<p, e>> : e \in { k \in DOMAIN document.paths[p][2].entries :
                               document.paths[p][2].entries[k][2].operationId = Some(operationId) } }
          : p \in DOMAIN document.paths }

\* getOperationWithPathInfoMatchingOperationId: the nested for-in loops return
\* at the first match in document order; None stands for the thrown error
getOperationWithPathInfoMatchingOperationId(document, operationId) ==
  LET matching == MatchingEntries(document, operationId) IN
  IF matching = {} THEN None
  ELSE
    LET first == CHOOSE pe \in matching :
                   \A other \in matching :
                     \/ pe[1] < other[1]
                     \/ (pe[1] = other[1] /\ pe[2] <= other[2])
        pathName == document.paths[first[1]][1]
        pathItem == document.paths[first[1]][2]
        pathReqMethod == pathItem.entries[first[2]][1]
        operation == pathItem.entries[first[2]][2]
    IN Some([ operationId |-> operation.operationId,
              requestBody |-> operation.requestBody,
              servers |-> operation.servers,
              parameters |-> Some(addParametersIfNotDefined(
                                    Get(Coalesce(operation.parameters, Some(<<>>))),
                                    Get(Coalesce(pathItem.parameters, Some(<<>>))))),
              security |-> operationSecurity(operation, document),
              pathName |-> pathName,
              pathReqMethod |-> pathReqMethod,
              overrideBasePath |-> Coalesce(constructServerPathForOperation(operation),
                                            constructServerPathForOperation(pathItem)) ])


-----------------------------------------------------------------------------
(* OpenApiAxiosParamFactory: parameter placement and request assembly.        *)
(* args is the ordered map of the caller's arguments (Object.entries order).  *)

\* String.prototype.toLowerCase for the parameter names of the model
ToLowerCase(text) ==
  CASE text = "Accept"        -> "accept"
    [] text = "Content-Type"  -> "content-type"
    [] text = "Authorization" -> "authorization"
    [] text = "AUTHORIZATION" -> "authorization"
    [] text = "X-Trace"       -> "x-trace"
    [] text = "X-API-KEY"     -> "x-api-key"
    [] OTHER                  -> text   \* names without upper-case letters

\* the position of the last required parameter that is not a key of args
LastUnsetRequiredParameter(parameters, args) ==
  LET unset == {i \in DOMAIN parameters :
                  parameters[i].required /\ ~MapHas(args, parameters[i].name)}
  IN IF unset = {} THEN 0 ELSE CHOOSE i \in unset : \A j \in unset : j <= i

\* assertAllRequiredParametersArePresent: the position of the first required
\* parameter that is not an own key of args, 0 if there is none
UnsetRequiredParameter(parameters, args) ==
  LET Unset(parameter) == parameter.required /\ ~MapHas(args, parameter.name)
  IN FindIndex(parameters, Unset)

addParameterToHeaders(headerParameters, parameterName, value) ==
  IF ToLowerCase(parameterName) \notin IGNORED_HEADER_PARAMETERS
    THEN MapSet(headerParameters, parameterName, ToText(value))
    ELSE headerParameters

replacePathTemplateInUrlPath(pathName, parameterName, value) ==
  ReplaceToken(pathName, Token(parameterName), ToText(value))

\* a placement that goes by the last declared parameter named key
PlaceArgumentByLastDeclared(f, parameters, key, value) ==
  LET declared == Get(Coalesce(parameters, Some(<<>>)))
      named == {i \in DOMAIN declared : declared[i].name = key}
      location == IF named = {} THEN "body"
                  ELSE declared[CHOOSE i \in named : \A j \in named : j <= i].in
  IN CASE location = "body"   -> [f EXCEPT !.requestBodyArgs = MapSet(@, key, value)]
       [] location = "query"  -> [f EXCEPT !.queryParameters = MapSet(@, key, value)]
       [] location = "path"   -> [f EXCEPT !.pathName = ReplaceToken(@, Token(key), ToText(value))]
       [] location = "header" -> [f EXCEPT !.headerParameters = MapSet(@, key, ToText(value))]
       [] OTHER -> [f EXCEPT !.error = "Parameters with \"in\" set to " \o location \o " are not supported."]

\* one iteration of the loop of addParametersToUrlAndHeader over Object.entries(args);
\* f holds the factory's pathName, queryParameters, headerParameters,
\* requestBodyArgs and the error thrown, "" if none
PlaceArgument(f, parameters, key, value) ==
  LET declared == Get(Coalesce(parameters, Some(<<>>)))
      Named(param) == param.name = key
      found == FindIndex(declared, Named)
  IN
  IF found = 0
    THEN [f EXCEPT !.requestBodyArgs = MapSet(@, key, value)]
  ELSE LET parameter == declared[found] IN
    IF parameter.in = PARAMETER_AND_SCHEME_LOCATIONS.query
      THEN [f EXCEPT !.queryParameters = MapSet(@, key, value)]
    ELSE IF parameter.in = PARAMETER_AND_SCHEME_LOCATIONS.path
      THEN [f EXCEPT !.pathName = replacePathTemplateInUrlPath(@, parameter.name, value)]
    ELSE IF parameter.in = PARAMETER_AND_SCHEME_LOCATIONS.header
      THEN [f EXCEPT !.headerParameters = addParameterToHeaders(@, parameter.name, value)]
    ELSE [f EXCEPT !.error = "Parameters with \"in\" set to " \o parameter.in \o " are not supported."]

RECURSIVE PlaceArguments(_, _, _)
PlaceArguments(f, parameters, entries) ==
  IF entries = <<>> \/ f.error # "" THEN f
  ELSE PlaceArguments(PlaceArgument(f, parameters, entries[1][1], entries[1][2]),
                      parameters, Tail(entries))

\* addParametersToUrlAndHeader
addParametersToUrlAndHeader(f, parameters, args) ==
  LET unset == IF IsSome(parameters) THEN UnsetRequiredParameter(Get(parameters), args) ELSE 0
  IN IF unset # 0
       THEN [f EXCEPT !.error = "Parameter " \o Get(parameters)[unset].name
                                  \o " is required for this operation."]
       ELSE PlaceArguments(f, parameters, args)

FORM_CONTENT_TYPE == "application/x-www-form-urlencoded"
JSON_CONTENT_TYPE == "application/json"

\* a choice of the form encoding whenever it is declared
getContentTypeFormWhenDeclared(requestBody) ==
  IF IsSome(requestBody) /\ FORM_CONTENT_TYPE \in Range(Get(requestBody))
    THEN FORM_CONTENT_TYPE
    ELSE JSON_CONTENT_TYPE

\* getContentType; requestBody is the optional list of declared content types
getContentType(requestBody) ==
  IF /\ IsSome(requestBody)
     /\ FORM_CONTENT_TYPE \in Range(Get(requestBody))
     /\ JSON_CONTENT_TYPE \notin Range(Get(requestBody))
    THEN FORM_CONTENT_TYPE
    ELSE JSON_CONTENT_TYPE

\* nonArrayOrObjectParamToUrlString; parentKeys is the array the callers share
nonArrayOrObjectParamToUrlString(paramName, paramValue, paramsIsArray, parentKeys) ==
  LET keys == IF paramsIsArray THEN parentKeys ELSE Append(parentKeys, paramName)
      paramKey == IF Len(parentKeys) > 0
                    THEN keys[1] \o JoinStrings([i \in 1..(Len(keys) - 1) |->
                                                   "[" \o keys[i + 1] \o "]"], "")
                    ELSE paramName
      encodedParamValue == encodeURIComponent(ToText(paramValue))
  IN IF paramsIsArray
       THEN paramKey \o "[]=" \o encodedParamValue
       ELSE paramKey \o "=" \o encodedParamValue

\* jsonParamsToUrlStringFrom(params, parentKeys) is jsonParamsToUrlString called
\* with that parentKeys array: [text, parentKeys] are the string returned and
\* the array as the call leaves it.  ParamStrings is the map over
\* Object.keys(params) from entry i on, strings the results so far;
\* arrayOrObjectParamToUrlString is the branch for typeof paramValue === 'object'.
RECURSIVE jsonParamsToUrlStringFrom(_, _), ParamStrings(_, _, _, _),
          arrayOrObjectParamToUrlString(_, _, _, _, _)
arrayOrObjectParamToUrlString(paramName, paramValue, paramIndex, parentIsArray, parentKeys) ==
  jsonParamsToUrlStringFrom(paramValue,
    Append(parentKeys, IF parentIsArray THEN IndexText(paramIndex) ELSE paramName))

ParamStrings(params, i, parentKeys, strings) ==
  IF i > Len(params.items) THEN [strings |-> strings, parentKeys |-> parentKeys]
  ELSE LET paramName == params.items[i][1]
           paramValue == params.items[i][2]
       IN IF IsObjectType(paramValue)
            THEN LET r == arrayOrObjectParamToUrlString(paramName, paramValue, i - 1,
                                                        IsArray(params), parentKeys)
                 IN ParamStrings(params, i + 1, r.parentKeys, Append(strings, r.text))
            ELSE ParamStrings(params, i + 1, parentKeys,
                   Append(strings, nonArrayOrObjectParamToUrlString(
                                     paramName, paramValue, IsArray(params), parentKeys)))

jsonParamsToUrlStringFrom(params, parentKeys) ==
  LET r == ParamStrings(params, 1, parentKeys, <<>>)
  IN [ text |-> JoinStrings(r.strings, "&"),
       \* parentKeys.pop()
       parentKeys |-> IF r.parentKeys = <<>> THEN <<>>
                      ELSE SubSeq(r.parentKeys, 1, Len(r.parentKeys) - 1) ]

\* jsonParamsToUrlString(params) with the default parentKeys = []
jsonParamsToUrlString(params) == jsonParamsToUrlStringFrom(params, <<>>).text

\* JSON.stringify
RECURSIVE JsonStringify(_)
JsonStringify(value) ==
  CASE value.type = "string" -> "\"" \o value.text \o "\""
    [] value.type = "object" ->
         "{" \o JoinStrings([i \in DOMAIN value.items |->
                  "\"" \o value.items[i][1] \o "\":" \o JsonStringify(value.items[i][2])], ",")
             \o "}"
    [] value.type = "array" ->
         "[" \o JoinStrings([i \in DOMAIN value.items |-> JsonStringify(value.items[i][2])], ",")
             \o "]"
    [] OTHER -> value.text

\* serializeDataAsJsonIfNeeded / serializeDataAsFormIfNeeded on the body-argument
\* bag, the entries of an object: undefined (None) for an empty object
serializeDataAsJsonIfNeeded(value) ==
  IF value = <<>> THEN None ELSE Some(JsonStringify(JObject(value)))
serializeDataAsFormIfNeeded(data) ==
  IF data = <<>> THEN None ELSE Some(jsonParamsToUrlString(JObject(data)))

getAndSerializeRequestData(contentType, requestBodyArgs) ==
  IF contentType = FORM_CONTENT_TYPE
    THEN serializeDataAsFormIfNeeded(requestBodyArgs)
    ELSE serializeDataAsJsonIfNeeded(requestBodyArgs)

\* An AxiosRequestConfig (baseOptions, options) is [headers, rest]: the optional
\* headers map and the ordered map of the other options.
NoOptions == [headers |-> None, rest |-> <<>>]

\* request options in which baseOptions are spread after options
constructRequestOptionsBaseLast(f, requestBody, pathReqMethod, baseOptions, options) ==
  LET contentType == getContentType(requestBody)
      data == getAndSerializeRequestData(contentType, f.requestBodyArgs)
      base == Get(Coalesce(baseOptions, Some(NoOptions)))
      headers == MapSpread(MapSpread(f.headerParameters,
                                     Get(Coalesce(options.headers, Some(<<>>)))),
                           Get(Coalesce(base.headers, Some(<<>>))))
  IN [ rest |-> MapWithout(MapSpread(MapSpread(<< <<"method", pathReqMethod>> >>, options.rest),
                                      base.rest), "data"),
       data |-> data,
       headers |-> IF IsSome(data) /\ Get(data) # ""
                     THEN MapSet(headers, "Content-Type", contentType) ELSE headers ]

\* request options whose Content-Type is written before the caller's headers
\* are merged in
constructRequestOptionsContentTypeFirst(f, requestBody, pathReqMethod, baseOptions, options) ==
  LET contentType == getContentType(requestBody)
      data == getAndSerializeRequestData(contentType, f.requestBodyArgs)
      base == Get(Coalesce(baseOptions, Some(NoOptions)))
      computed == IF IsSome(data) /\ Get(data) # ""
                    THEN MapSet(f.headerParameters, "Content-Type", contentType)
                    ELSE f.headerParameters
  IN [ rest |-> MapWithout(MapSpread(MapSpread(<< <<"method", pathReqMethod>> >>, base.rest),
                                      options.rest), "data"),
       data |-> data,
       headers |-> MapSpread(MapSpread(computed, Get(Coalesce(base.headers, Some(<<>>)))),
                             Get(Coalesce(options.headers, Some(<<>>)))) ]

\* constructRequestOptions: [rest, data, headers] of the request options; the
\* data and headers properties of the literal come after the spreads, so a
\* data option of baseOptions or options does not reach the request
constructRequestOptions(f, requestBody, pathReqMethod, baseOptions, options) ==
  LET contentType == getContentType(requestBody)
      data == getAndSerializeRequestData(contentType, f.requestBodyArgs)
      base == Get(Coalesce(baseOptions, Some(NoOptions)))
      headers == MapSpread(MapSpread(f.headerParameters,
                                     Get(Coalesce(base.headers, Some(<<>>)))),
                           Get(Coalesce(options.headers, Some(<<>>))))
  IN [ rest |-> MapWithout(MapSpread(MapSpread(<< <<"method", pathReqMethod>> >>, base.rest),
                                      options.rest), "data"),
       data |-> data,
       \* if (data): a string that is not empty
       headers |-> IF IsSome(data) /\ Get(data) # ""
                     THEN MapSet(headers, "Content-Type", contentType) ELSE headers ]

\* the tail of createParams: url and options
createParamsResult(f, requestBody, pathReqMethod, baseOptions, options) ==
  LET urlQuery == jsonParamsToUrlString(JObject(f.queryParameters))
  IN [ url |-> f.pathName \o (IF urlQuery # "" THEN <<"?" \o urlQuery>> ELSE <<>>),
       options |-> constructRequestOptions(f, requestBody, pathReqMethod, baseOptions, options) ]


-----------------------------------------------------------------------------
(* The calls.  calls[c] is one executeOperation / executeSecuritySchemeStage  *)
(* call with the OpenApiAxiosParamFactory and OpenApiClientAxiosApi it        *)
(* constructs.  pc is the await the call is suspended at:                     *)
(*   "idle"        no call in this slot                                       *)
(*   "security"    in setSecurityFromSecurityRequirement, before scheme       *)
(*                 number schemeIdx of matchingSecurityReq                    *)
(*   "parameters"  setSecurityIfNeeded has returned                           *)
(*   "assemble"    addParametersToUrlAndHeader has returned                   *)
(*   "transport"   awaiting axios.request                                     *)
(*   "done"        the promise returned to the caller is settled              *)
(* api names the public method the caller invoked, stage the scheme, flow and *)
(* stage an executeSecuritySchemeStage call was made for.                     *)

IdleCall ==
  [ pc |-> "idle", api |-> "", stage |-> <<>>, cfg |-> 0, operationId |-> "", basePath |-> None,
    pathName |-> <<>>, pathReqMethod |-> "", security |-> None, parameters |-> None,
    requestBody |-> None, securitySchemes |-> <<>>,
    queryParameters |-> <<>>, headerParameters |-> <<>>, requestBodyArgs |-> <<>>,
    args |-> <<>>, options |-> NoOptions,
    matchingSecurityReq |-> <<>>, schemeIdx |-> 0,
    status |-> "none", error |-> "", result |-> None, sent |-> <<>> ]

Rejected(call, message) == [call EXCEPT !.pc = "done", !.status = "rejected", !.error = message]

\* a setSecurityIfNeeded that goes on to the parameters when no requirement
\* can be satisfied
setSecurityIfNeededLenient(call, config) ==
  IF IsSome(call.security) /\ Len(Get(call.security)) > 0
       /\ findSecurityReqMatchingConfiguration(Get(call.security), call.securitySchemes, config) # 0
    THEN [call EXCEPT !.pc = "security",
                      !.matchingSecurityReq =
                        Get(call.security)[findSecurityReqMatchingConfiguration(
                                             Get(call.security), call.securitySchemes, config)],
                      !.schemeIdx = 1]
    ELSE [call EXCEPT !.pc = "parameters"]

\* setSecurityIfNeeded up to its first await
setSecurityIfNeeded(call, config) ==
  IF IsSome(call.security) /\ Len(Get(call.security)) > 0
    THEN LET matching == findSecurityReqMatchingConfiguration(
                           Get(call.security), call.securitySchemes, config)
         IN IF matching # 0
              THEN [call EXCEPT !.pc = "security",
                                !.matchingSecurityReq = Get(call.security)[matching],
                                !.schemeIdx = 1]
              ELSE Rejected(call, "Could not satisfy security requirments with the provided configuration.")
    ELSE [call EXCEPT !.pc = "parameters"]

\* sendOperationRequest: constructs the factory and the axios api (which
\* captures configuration.basePath) and calls sendRequest, which calls
\* createParams, which runs setSecurityIfNeeded
sendOperationRequest(api, operationAndPathInfo, ref, config, securitySchemes, args, options) ==
  setSecurityIfNeeded(
    [ IdleCall EXCEPT
        !.pc = "created",
        !.api = api,
        !.status = "pending",
        !.cfg = ref,
        !.operationId = Get(Coalesce(operationAndPathInfo.operationId, Some(""))),
        !.basePath = config.basePath,
        !.pathName = operationAndPathInfo.pathName,
        !.pathReqMethod = operationAndPathInfo.pathReqMethod,
        !.security = operationAndPathInfo.security,
        !.parameters = operationAndPathInfo.parameters,
        !.requestBody = operationAndPathInfo.requestBody,
        !.securitySchemes = securitySchemes,
        !.args = args,
        !.options = options ],
    config)

\* `configuration.basePath ||= ...`: an undefined or empty basePath is falsy
IsFalsyBasePath(basePath) == ~IsSome(basePath) \/ Get(basePath) = <<>>

\* a configuration in which the servers of the operation or of its path item
\* come before the caller's basePath
withBasePathServersFirst(config, operationAndPathInfo, document) ==
  [config EXCEPT !.basePath =
     IF IsSome(operationAndPathInfo.overrideBasePath) THEN operationAndPathInfo.overrideBasePath
     ELSE IF IsFalsyBasePath(@) THEN Some(constructBasePathFromGlobalServers(document))
     ELSE @]

\* a configuration to whose basePath the resolved one is appended
withBasePathAppended(config, operationAndPathInfo, document) ==
  [config EXCEPT !.basePath =
     Some(Get(Coalesce(@, Some(<<>>)))
            \o Get(Coalesce(operationAndPathInfo.overrideBasePath,
                            Some(constructBasePathFromGlobalServers(document)))))]

\* the configuration after
\* `configuration.basePath ||= operationAndPathInfo.overrideBasePath ?? this.constructBasePathFromGlobalServers()`
withBasePath(config, operationAndPathInfo, document) ==
  IF IsFalsyBasePath(config.basePath)
    THEN [config EXCEPT !.basePath =
            Coalesce(operationAndPathInfo.overrideBasePath,
                     Some(constructBasePathFromGlobalServers(document)))]
    ELSE config

executeOperation(c, ref, operationId, args, options) ==
  /\ calls[c].pc = "idle"
  /\ IF ~IsSome(openApiDescription)
       THEN /\ calls' = [calls EXCEPT ![c] =
                 Rejected([IdleCall EXCEPT !.api = "executeOperation", !.cfg = ref,
                                           !.operationId = operationId,
                                           !.args = args, !.options = options],
                          "No Openapi description supplied.")]
            /\ UNCHANGED configuration
     ELSE LET document == Get(openApiDescription)
              found == getOperationWithPathInfoMatchingOperationId(document, operationId)
          IN IF ~IsSome(found)
               THEN /\ calls' = [calls EXCEPT ![c] =
                         Rejected([IdleCall EXCEPT !.api = "executeOperation", !.cfg = ref,
                                                   !.operationId = operationId,
                                                   !.args = args, !.options = options],
                                  "No OpenApi operation with operationId " \o operationId
                                    \o " was found in the spec.")]
                    /\ UNCHANGED configuration
               ELSE LET operationAndPathInfo == Get(found)
                        config == configuration[ref]
                        newConfig == withBasePath(config, operationAndPathInfo, document)
                    IN /\ configuration' = [configuration EXCEPT ![ref] = newConfig]
                       /\ calls' = [calls EXCEPT ![c] =
                            sendOperationRequest("executeOperation", operationAndPathInfo, ref, newConfig,
                              Get(Coalesce(document.securitySchemes, Some(<<>>))), args, options)]
  /\ UNCHANGED <<openApiDescription, dereferencing>>

\* the effect of one scheme of the chosen requirement on the call:
\* setOAuthToHeaderObject, setBasicAuthToHeaderObject,
\* setBearerAuthToHeaderObject or setApiKeyToHeaderOrQueryObject
ApplyScheme(call, config, schemeName, scopes) ==
  LET scheme == MapGet(call.securitySchemes, schemeName) IN
  CASE scheme.type = SECURITY_TYPES.oauth2 ->
         LET accessToken == getAccessToken(config, schemeName, scopes) IN
         IF accessToken.ok
           THEN [call EXCEPT !.headerParameters = MapSet(@, "Authorization", "Bearer " \o accessToken.value)]
           ELSE Rejected(call, accessToken.value)
    [] scheme.type = SECURITY_TYPES.http ->
         IF scheme.scheme = BASIC_SCHEME_TYPE
           THEN [call EXCEPT !.headerParameters = MapSet(@, "Authorization", BasicAuthorization(config))]
         ELSE IF scheme.scheme = BEARER_SCHEME_TYPE
           THEN LET bearerToken == getBearerToken(config) IN
                IF bearerToken.ok
                  THEN [call EXCEPT !.headerParameters = MapSet(@, "Authorization", "Bearer " \o bearerToken.value)]
                  ELSE Rejected(call, bearerToken.value)
         ELSE call
    [] scheme.type = SECURITY_TYPES.apiKey ->
         LET apiKey == getApiKey(config, scheme.name) IN
         IF ~apiKey.ok THEN Rejected(call, apiKey.value)
         ELSE IF scheme.in = PARAMETER_AND_SCHEME_LOCATIONS.header
           THEN [call EXCEPT !.headerParameters = MapSet(@, scheme.name, apiKey.value)]
         ELSE IF scheme.in = PARAMETER_AND_SCHEME_LOCATIONS.query
           THEN [call EXCEPT !.queryParameters = MapSet(@, scheme.name, JString(apiKey.value))]
         ELSE Rejected(call, "apiKey security scheme in " \o scheme.in \o " is not supported.")
    [] OTHER -> call

\* one iteration of the loop of setSecurityFromSecurityRequirement: the
\* credential of scheme number schemeIdx is awaited and applied
setSecurityFromSecurityRequirement(c) ==
  /\ calls[c].pc = "security"
  /\ LET call == calls[c]
         entry == call.matchingSecurityReq[call.schemeIdx]
         applied == IF call.schemeIdx <= Len(call.matchingSecurityReq)
                      THEN ApplyScheme(call, configuration[call.cfg], entry[1], entry[2])
                      ELSE call
     IN calls' = [calls EXCEPT ![c] =
          IF applied.pc = "done" THEN applied
          ELSE IF call.schemeIdx >= Len(call.matchingSecurityReq)
            THEN [applied EXCEPT !.pc = "parameters"]
            ELSE [applied EXCEPT !.schemeIdx = @ + 1]]
  /\ UNCHANGED <<openApiDescription, dereferencing, configuration>>

\* createParams after setSecurityIfNeeded: addParametersToUrlAndHeader
addParameters(c) ==
  /\ calls[c].pc = "parameters"
  /\ LET call == calls[c]
         f == addParametersToUrlAndHeader(
                [ pathName |-> call.pathName, queryParameters |-> call.queryParameters,
                  headerParameters |-> call.headerParameters,
                  requestBodyArgs |-> call.requestBodyArgs, error |-> "" ],
                call.parameters, call.args)
         placed == [call EXCEPT !.pathName = f.pathName,
                                !.queryParameters = f.queryParameters,
                                !.headerParameters = f.headerParameters,
                                !.requestBodyArgs = f.requestBodyArgs]
     IN calls' = [calls EXCEPT ![c] =
          IF f.error # "" THEN Rejected(placed, f.error)
                          ELSE [placed EXCEPT !.pc = "assemble"]]
  /\ UNCHANGED <<openApiDescription, dereferencing, configuration>>

\* the request OpenApiClientAxiosApi.sendRequest hands to axios.request:
\* the options of createParams with the url prefixed by the base path
AxiosRequest(call, config) ==
  LET f == [ pathName |-> call.pathName, queryParameters |-> call.queryParameters,
             headerParameters |-> call.headerParameters,
             requestBodyArgs |-> call.requestBodyArgs ]
      params == createParamsResult(f, call.requestBody, call.pathReqMethod,
                                   config.baseOptions, call.options)
  IN [ url |-> Get(Coalesce(call.basePath, Some(<<>>))) \o params.url,
       rest |-> params.options.rest,
       data |-> params.options.data,
       headers |-> params.options.headers ]

\* the tail of createParams and the call of axios.request by sendRequest
sendRequest(c) ==
  /\ calls[c].pc = "assemble"
  /\ calls' = [calls EXCEPT ![c] =
       [@ EXCEPT !.pc = "transport",
                 !.sent = Append(@, AxiosRequest(calls[c], configuration[calls[c].cfg]))]]
  /\ UNCHANGED <<openApiDescription, dereferencing, configuration>>

\* axios.request resolves: the call resolves with the response
TransportResponds(c) ==
  /\ calls[c].pc = "transport"
  /\ calls' = [calls EXCEPT ![c] = [@ EXCEPT !.pc = "done", !.status = "resolved"]]
  /\ UNCHANGED <<openApiDescription, dereferencing, configuration>>

\* axios.request rejects: the call rejects with the transport's error
TransportFails(c) ==
  /\ calls[c].pc = "transport"
  /\ calls' = [calls EXCEPT ![c] = Rejected(@, "transport error")]
  /\ UNCHANGED <<openApiDescription, dereferencing, configuration>>

\* the caller has observed the settled promise; the slot is free for a new call
Return(c) ==
  /\ calls[c].pc = "done"
  /\ calls' = [calls EXCEPT ![c] = IdleCall]
  /\ UNCHANGED <<openApiDescription, dereferencing, configuration>>

\* the caller replaces the configuration object it holds under ref by a new one
NewConfiguration(ref, config) ==
  /\ \A c \in DOMAIN calls : calls[c].pc = "idle"
  /\ configuration[ref] # config
  /\ configuration' = [configuration EXCEPT ![ref] = config]
  /\ UNCHANGED <<openApiDescription, dereferencing, calls>>

\* setOpenapiSpec up to `await RefParser.dereference(...)`
setOpenapiSpec(document) ==
  /\ Len(dereferencing) < MaxDereferencing
  /\ dereferencing' = Append(dereferencing, document)
  /\ UNCHANGED <<openApiDescription, configuration, calls>>

RemoveAt(s, i) == SubSeq(s, 1, i - 1) \o SubSeq(s, i + 1, Len(s))

\* RefParser.dereference resolves: the description is assigned
DereferenceResolves(i) ==
  /\ i \in DOMAIN dereferencing
  /\ openApiDescription' = Some(dereferencing[i])
  /\ dereferencing' = RemoveAt(dereferencing, i)
  /\ UNCHANGED <<configuration, calls>>

\* a rejection that clears the description
DereferenceRejectsAndClears(i) ==
  /\ i \in DOMAIN dereferencing
  /\ openApiDescription' = None
  /\ dereferencing' = RemoveAt(dereferencing, i)
  /\ UNCHANGED <<configuration, calls>>

\* RefParser.dereference rejects: setOpenapiSpec rejects, nothing is assigned
DereferenceRejects(i) ==
  /\ i \in DOMAIN dereferencing
  /\ dereferencing' = RemoveAt(dereferencing, i)
  /\ UNCHANGED <<openApiDescription, configuration, calls>>


-----------------------------------------------------------------------------
(* executeSecuritySchemeStage: the OAuth2 flow stepper. *)

AUTHORIZATION_URL_STAGE == "authorizationUrl"
SUPPORTED_SECURITY_OPERATION_STAGES == {"tokenUrl"}
CLIENT_CREDENTIALS_FLOW == "clientCredentials"

\* crypto.randomBytes(32): the values the model draws from
RandomBytes ==
  { <<0, 1, 2, 3, 4, 5, 6, 7, 8, 9, 10, 11, 12, 13, 14, 15, 16, 17, 18, 19, 20,
      21, 22, 23, 24, 25, 26, 27, 28, 29, 30, 31>>,
    <<251, 244, 237, 230, 223, 216, 209, 202, 195, 188, 181, 174, 167, 160, 153,
      146, 139, 132, 125, 118, 111, 104, 97, 90, 83, 76, 69, 62, 55, 48, 41, 34>> }

\* sha256(text): the SHA-256 digests of the code verifiers of the model
sha256(text) ==
  CASE text = "AAECAwQFBgcICQoLDA0ODxAREhMUFRYXGBkaGxwdHh8" ->
         <<234, 134, 106, 117, 126, 76, 56, 186, 191, 168, 18, 124, 190, 154, 64, 157,
           62, 31, 147, 160, 15, 241, 72, 143, 247, 53, 252, 249, 23, 175, 255, 208>>
    [] text = "-_Tt5t_Y0crDvLWup6CZkouEfXZvaGFaU0xFPjcwKSI" ->
         <<25, 205, 14, 96, 121, 209, 168, 110, 205, 6, 26, 86, 15, 187, 169, 111,
           163, 22, 54, 120, 234, 127, 88, 61, 179, 151, 0, 108, 99, 139, 142, 116>>

securityStageOperationSecuritySchemes ==
  << <<"basic", [type |-> "http", scheme |-> "basic", name |-> "", in |-> "", flows |-> <<>>]>> >>

clientCredentialsTokenOperationAndPathInfo ==
  [ pathReqMethod |-> "POST",
    operationId |-> Some("ClientCredentialsOperation"),
    security |-> Some(<< << <<"basic", <<>> >> >> >>),
    parameters |-> None,
    requestBody |-> Some(<<FORM_CONTENT_TYPE>>) ]

pkceOauthOperationAndPathInfo ==
  [ pathReqMethod |-> "POST",
    operationId |-> Some("PkcaOauth"),
    security |-> None,
    parameters |-> Some(<<
      [name |-> "code", in |-> "query", required |-> TRUE],
      [name |-> "grant_type", in |-> "query", required |-> TRUE],
      [name |-> "refresh_token", in |-> "query", required |-> FALSE],
      [name |-> "client_id", in |-> "query", required |-> FALSE],
      [name |-> "client_secret", in |-> "query", required |-> FALSE],
      [name |-> "redirect_uri", in |-> "query", required |-> FALSE],
      [name |-> "code_verifier", in |-> "query", required |-> FALSE] >>),
    requestBody |-> None ]

\* a choice of descriptor that ignores the flow
getOperationInfoForFlowPkceOnly(flow) == pkceOauthOperationAndPathInfo

getOperationInfoForFlow(flow) ==
  IF flow = CLIENT_CREDENTIALS_FLOW
    THEN clientCredentialsTokenOperationAndPathInfo
    ELSE pkceOauthOperationAndPathInfo

\* `args.key`: undefined for a key args does not have; String(undefined) is
\* "undefined"
JUndefined == [type |-> "undefined", text |-> "undefined", items |-> <<>>]
ArgOrUndefined(args, key) == IF MapHas(args, key) THEN MapGet(args, key) ELSE JUndefined

\* an authorization url that carries the code challenge whatever the response type
constructAuthorizationUrlAlwaysChallenged(authorizationUrlBase, codeVerifier, args, scopes) ==
  LET params == << <<"redirect_uri", ArgOrUndefined(args, "redirect_uri")>>,
                   <<"client_id", ArgOrUndefined(args, "client_id")>>,
                   <<"response_type", ArgOrUndefined(args, "response_type")>>,
                   <<"code_challenge_method", JString("S256")>>,
                   <<"code_challenge", JString(base64URLEncode(sha256(codeVerifier)))>> >>
      withScope ==
        IF IsSome(scopes)
          THEN Append(params, <<"scope", JString(JoinStrings(Get(scopes), " "))>>)
          ELSE params
  IN authorizationUrlBase \o "?" \o jsonParamsToUrlString(JObject(withScope))

constructAuthorizationUrl(authorizationUrlBase, codeVerifier, args, scopes) ==
  LET params == << <<"redirect_uri", ArgOrUndefined(args, "redirect_uri")>>,
                   <<"client_id", ArgOrUndefined(args, "client_id")>>,
                   <<"response_type", ArgOrUndefined(args, "response_type")>> >>
      withChallenge ==
        IF ArgOrUndefined(args, "response_type") = JString("code")
          THEN params \o << <<"code_challenge_method", JString("S256")>>,
                            <<"code_challenge", JString(base64URLEncode(sha256(codeVerifier)))>> >>
          ELSE params
      withScope ==
        IF IsSome(scopes)
          THEN Append(withChallenge, <<"scope", JString(JoinStrings(Get(scopes), " "))>>)
          ELSE withChallenge
  IN authorizationUrlBase \o "?" \o jsonParamsToUrlString(JObject(withScope))

constructAuthorizationUrlStageInfo(authorizationUrlBase, args, scopes, randomBytes) ==
  LET codeVerifier == base64URLEncode(randomBytes)
  IN [ codeVerifier |-> codeVerifier,
       authorizationUrl |-> constructAuthorizationUrl(authorizationUrlBase, codeVerifier, args, scopes) ]

\* `flowConfig[stage]` when it is a non-empty string, None otherwise: stages
\* holds the string-valued keys of the flow object, so that `scopes`, whose
\* value is an object, is no key of it
\* a lookup that takes an empty string for a stage
StageValueOfAnyString(flowConfig, stage) ==
  IF MapHas(flowConfig.stages, stage) THEN Some(MapGet(flowConfig.stages, stage)) ELSE None

StageValue(flowConfig, stage) ==
  IF MapHas(flowConfig.stages, stage) /\ MapGet(flowConfig.stages, stage) # ""
    THEN Some(MapGet(flowConfig.stages, stage))
    ELSE None

executeSecuritySchemeStage(c, scheme, flow, stage, ref, args, randomBytes) ==
  /\ calls[c].pc = "idle"
  /\ LET started == [IdleCall EXCEPT !.api = "executeSecuritySchemeStage",
                                      !.stage = <<scheme, flow, stage>>, !.cfg = ref,
                                      !.args = args, !.status = "pending"]
         securitySchemes == Get(Coalesce(Get(openApiDescription).securitySchemes, Some(<<>>)))
         schemeConfig == MapGet(securitySchemes, scheme)
         flowConfig == MapGet(schemeConfig.flows, flow)
     IN calls' = [calls EXCEPT ![c] =
          IF ~IsSome(openApiDescription)
            THEN Rejected(started, "No Openapi description supplied.")
          ELSE IF ~MapHas(securitySchemes, scheme)
            THEN Rejected(started, "No security scheme called " \o scheme \o " found.")
          ELSE IF schemeConfig.type # "oauth2"
            THEN Rejected(started, "Execution of " \o schemeConfig.type
                                     \o " security schemes is not supported.")
          ELSE IF ~MapHas(schemeConfig.flows, flow)
            THEN Rejected(started, "No flow called " \o flow \o " found in the "
                                     \o scheme \o " security scheme.")
          ELSE IF ~IsSome(StageValue(flowConfig, stage))
            THEN Rejected(started, "No stage called " \o stage \o " found in " \o flow
                                     \o " flow of the " \o scheme \o " security scheme.")
          ELSE IF stage = AUTHORIZATION_URL_STAGE
            THEN [started EXCEPT
                    !.pc = "done", !.status = "resolved",
                    !.result = Some(constructAuthorizationUrlStageInfo(
                                      Get(StageValue(flowConfig, AUTHORIZATION_URL_STAGE)),
                                      args, flowConfig.scopes, randomBytes))]
          ELSE IF stage \in SUPPORTED_SECURITY_OPERATION_STAGES
            THEN [ sendOperationRequest("executeSecuritySchemeStage",
                     [ pathReqMethod |-> getOperationInfoForFlow(flow).pathReqMethod,
                       operationId |-> getOperationInfoForFlow(flow).operationId,
                       security |-> getOperationInfoForFlow(flow).security,
                       parameters |-> getOperationInfoForFlow(flow).parameters,
                       requestBody |-> getOperationInfoForFlow(flow).requestBody,
                       pathName |-> <<Get(StageValue(flowConfig, stage))>> ],
                     ref, configuration[ref], securityStageOperationSecuritySchemes,
                     args, NoOptions)
                   EXCEPT !.stage = <<scheme, flow, stage>> ]
          ELSE Rejected(started, stage \o " stage found in " \o flow \o " flow of the "
                                   \o scheme \o " security scheme is not supported.")]
  /\ UNCHANGED <<openApiDescription, dereferencing, configuration>>


-----------------------------------------------------------------------------
(* The inputs of the model. *)

Scheme(type, scheme, name, in) ==
  [type |-> type, scheme |-> scheme, name |-> name, in |-> in, flows |-> <<>>]

\* components.securitySchemes of the documents of the model; the scheme name
\* "ghost" is used by requirements and has no definition
SecuritySchemeDefinitions ==
  << <<"oAuth",  Scheme("oauth2", "", "", "")>>,
     <<"oAuthB", Scheme("oauth2", "", "", "")>>,
     <<"basic",  Scheme("http", "basic", "", "")>>,
     <<"bearer", Scheme("http", "bearer", "", "")>>,
     <<"digest", Scheme("http", "digest", "", "")>>,
     <<"keyH",   Scheme("apiKey", "", "X-API-KEY", "header")>>,
     <<"keyQ",   Scheme("apiKey", "", "apikey", "query")>>,
     <<"keyC",   Scheme("apiKey", "", "sid", "cookie")>>,
     <<"oidc",   Scheme("openIdConnect", "", "", "")>> >>

\* the scopes a requirement lists for a scheme
ScopesOf(schemeName) ==
  CASE schemeName = "oAuth"  -> <<"scope.a">>
    [] schemeName = "oAuthB" -> <<"scope.b", "scope.c">>
    [] OTHER -> <<>>

Requirement(schemeNames) == [i \in DOMAIN schemeNames |-> <<schemeNames[i], ScopesOf(schemeNames[i])>>]

\* the requirements naming up to MaxSchemesPerRequirement of the combined
\* scheme names in any key order, and those naming one of the single ones
RequirementsOver(combinedNames, singleNames) ==
  {Requirement(names) : names \in DistinctSeqsUpTo(combinedNames, MaxSchemesPerRequirement)}
  \cup {Requirement(<<name>>) : name \in singleNames}

NoOperation ==
  [operationId |-> None, security |-> None, parameters |-> None, servers |-> None, requestBody |-> None]

\* a document with the single operation getItems under get /items, which
\* declares the required query parameter q
SecurityDocument(alternatives) ==
  [ paths |-> << << <<"/items">>,
                    [ entries |-> << <<"get", [NoOperation EXCEPT
                          !.operationId = Some("getItems"),
                          !.security = Some(alternatives),
                          !.parameters = Some(<<[name |-> "q", in |-> "query", required |-> TRUE]>>)]>> >>,
                      parameters |-> None, servers |-> None ] >> >>,
    security |-> None,
    servers |-> None,
    securitySchemes |-> Some(SecuritySchemeDefinitions) ]

\* the credential fields a configuration may set; the configurations of the
\* model set basePath, so executeOperation leaves them as they are
Configuration(choice) ==
  [ creds |-> (IF IsSome(choice.accessToken) THEN << <<"accessToken", Get(choice.accessToken)>> >> ELSE <<>>)
              \o choice.basic
              \o (IF IsSome(choice.bearerToken) THEN << <<"bearerToken", Get(choice.bearerToken)>> >> ELSE <<>>)
              \o (IF IsSome(choice.apiKey) THEN << <<"apiKey", Get(choice.apiKey)>> >> ELSE <<>>)
              \o (IF IsSome(choice.named) THEN << <<"X-API-KEY", Get(choice.named)>> >> ELSE <<>>),
    basePath |-> Some(<<"https://api.example.com">>),
    baseOptions |-> None ]

TypeOK ==
  /\ Len(openApiDescription) <= 1
  /\ Len(dereferencing) <= MaxDereferencing
  /\ \A c \in DOMAIN calls :
       calls[c].pc \in {"idle", "security", "parameters", "assemble", "transport", "done"}

-----------------------------------------------------------------------------
(* SpecSecurity: one operation with up to MaxAlternatives security            *)
(* requirement alternatives; the caller's configuration sets any combination  *)
(* of credentials.                                                            *)

SecurityRequirements ==
  { Requirement(names) : names \in
      { <<>>, <<"oAuth">>, <<"keyH">>, <<"keyC">>, <<"basic">>, <<"ghost">>,
        <<"oAuth", "keyC">>, <<"keyH", "oAuth">> } }

SecurityDocuments ==
  {SecurityDocument(alternatives) : alternatives \in SeqsUpTo(SecurityRequirements, MaxAlternatives)}

SecurityConfigurations ==
  { Configuration(choice) : choice \in
      [ accessToken : {None, Some(Function("at")), Some(Rejecting("token refresh failed"))},
        basic : { <<>>,
                  << <<"username", Literal("ab")>> >>,
                  << <<"username", Literal("a")>>, <<"password", Literal("abc")>> >> },
        bearerToken : {None},
        apiKey : {None, Some(Literal("generic-key"))},
        named : {None} ]
      \cup
      [ accessToken : {None, Some(Function("at")), Some(Rejecting("token refresh failed"))},
        basic : { <<>> },
        bearerToken : {None},
        apiKey : {None},
        named : {Some(Function("named-key"))} ] }

InitSecurity ==
  /\ openApiDescription = None
  /\ dereferencing = <<>>
  /\ configuration \in [{1} -> SecurityConfigurations]
  /\ calls = [c \in {1} |-> IdleCall]

NextSecurity ==
  \/ \E document \in SecurityDocuments :
       ~IsSome(openApiDescription) /\ dereferencing = <<>> /\ setOpenapiSpec(document)
  \/ \E i \in DOMAIN dereferencing : DereferenceResolves(i)
  \/ \E c \in DOMAIN calls, args \in {<<>>, << <<"q", JNumber("1")>> >>} :
       executeOperation(c, 1, "getItems", args, NoOptions)
  \/ \E c \in DOMAIN calls : setSecurityFromSecurityRequirement(c)
  \/ \E c \in DOMAIN calls : addParameters(c)
  \/ \E c \in DOMAIN calls : sendRequest(c)
  \/ \E c \in DOMAIN calls : TransportResponds(c)
  \/ \E c \in DOMAIN calls : Return(c)

SpecSecurity == InitSecurity /\ [][NextSecurity]_vars

-----------------------------------------------------------------------------
(* SpecCredentials: one operation with a single security requirement; the     *)
(* credentials range over literals, functions and rejecting functions.        *)

CredentialRequirements ==
  RequirementsOver({"oAuth", "oAuthB", "basic", "bearer", "keyH", "keyQ"}, {"keyC", "digest"})

CredentialDocuments ==
  {SecurityDocument(<<requirement>>) : requirement \in CredentialRequirements}

CredentialConfigurations ==
  { Configuration(choice) : choice \in
      [ accessToken : {Some(Literal("12345")), Some(Function("at")), Some(Rejecting("token refresh failed"))},
        basic : { << <<"username", Literal("a")>>, <<"password", Literal(">>")>> >>,
                  << <<"username", Literal("ab")>>, <<"password", Literal("??")>> >>,
                  << <<"username", Literal("abc")>>, <<"password", Literal("ab")>> >> },
        bearerToken : {Some(Literal("jwt")), Some(Function("bt"))},
        apiKey : {None, Some(Literal("generic-key")), Some(Function("generic-fn"))},
        named : {None, Some(Function("named-key"))} ] }

InitCredentials ==
  /\ openApiDescription = None
  /\ dereferencing = <<>>
  /\ configuration \in [{1} -> CredentialConfigurations]
  /\ calls = [c \in {1} |-> IdleCall]

NextCredentials ==
  \/ \E document \in CredentialDocuments :
       ~IsSome(openApiDescription) /\ dereferencing = <<>> /\ setOpenapiSpec(document)
  \/ \E i \in DOMAIN dereferencing : DereferenceResolves(i)
  \/ \E c \in DOMAIN calls : executeOperation(c, 1, "getItems", << <<"q", JNumber("1")>> >>, NoOptions)
  \/ \E c \in DOMAIN calls : setSecurityFromSecurityRequirement(c)
  \/ \E c \in DOMAIN calls : addParameters(c)
  \/ \E c \in DOMAIN calls : sendRequest(c)
  \/ \E c \in DOMAIN calls : TransportResponds(c)
  \/ \E c \in DOMAIN calls : Return(c)

SpecCredentials == InitCredentials /\ [][NextCredentials]_vars


-----------------------------------------------------------------------------
(* SpecParams: one operation, post /items/{id}/of/{id}, secured by the header *)
(* api key, with up to MaxParameters declared parameters; it is called with   *)
(* up to MaxArgs arguments.                                                   *)

Parameter(name, in, required) == [name |-> name, in |-> in, required |-> required]

ParameterDescriptors ==
  { Parameter("id", "path", TRUE), Parameter("id", "query", FALSE),
    Parameter("sid", "cookie", FALSE), Parameter("Accept", "header", FALSE),
    Parameter("X-Trace", "header", TRUE), Parameter("AUTHORIZATION", "header", FALSE) }

ParameterDocument(parameters) ==
  [ paths |-> << << <<"/items/", "{id}", "/of/", "{id}">>,
                    [ entries |-> << <<"post", [NoOperation EXCEPT
                          !.operationId = Some("updateItem"),
                          !.parameters = Some(parameters)]>> >>,
                      parameters |-> None, servers |-> None ] >> >>,
    security |-> Some(<<Requirement(<<"keyH">>)>>),
    servers |-> None,
    securitySchemes |-> Some(SecuritySchemeDefinitions) ]

ParameterDocuments ==
  {ParameterDocument(parameters) : parameters \in SeqsUpTo(ParameterDescriptors, MaxParameters)}

\* the value the caller passes under a key of args
ArgValue(key) == JString(key \o "-v")

ParameterArgs ==
  { [i \in DOMAIN keys |-> <<keys[i], ArgValue(keys[i])>>] :
      keys \in DistinctSeqsUpTo({"id", "sid", "Accept", "X-Trace", "AUTHORIZATION", "note"}, MaxArgs) }

ParameterConfiguration ==
  Configuration([accessToken |-> None, basic |-> <<>>, bearerToken |-> None,
                 apiKey |-> Some(Literal("generic-key")), named |-> None])

\* the configurations of the caller: with an api key, with none, and with an
\* api key function that rejects
ParameterConfigurations ==
  { ParameterConfiguration,
    Configuration([accessToken |-> Some(Literal("12345")), basic |-> <<>>, bearerToken |-> None,
                   apiKey |-> None, named |-> None]),
    Configuration([accessToken |-> None, basic |-> <<>>, bearerToken |-> None,
                   apiKey |-> Some(Rejecting("key lookup failed")), named |-> None]) }

InitParams ==
  /\ openApiDescription = None
  /\ dereferencing = <<>>
  /\ configuration \in [{1} -> ParameterConfigurations]
  /\ calls = [c \in {1} |-> IdleCall]

NextParams ==
  \/ \E document \in ParameterDocuments :
       ~IsSome(openApiDescription) /\ dereferencing = <<>> /\ setOpenapiSpec(document)
  \/ \E i \in DOMAIN dereferencing : DereferenceResolves(i)
  \/ \E c \in DOMAIN calls, args \in ParameterArgs :
       executeOperation(c, 1, "updateItem", args, NoOptions)
  \/ \E c \in DOMAIN calls : setSecurityFromSecurityRequirement(c)
  \/ \E c \in DOMAIN calls : addParameters(c)
  \/ \E c \in DOMAIN calls : sendRequest(c)
  \/ \E c \in DOMAIN calls : TransportResponds(c)
  \/ \E c \in DOMAIN calls : Return(c)

SpecParams == InitParams /\ [][NextParams]_vars

-----------------------------------------------------------------------------
(* SpecLookup: the executor's public methods on documents with several        *)
(* operations, before, while and after a description is loaded.               *)

OAuthFlows ==
  << <<"authorizationCode",
       [ stages |-> << <<"authorizationUrl", "https://auth.example.com/authorize">>,
                       <<"tokenUrl", "https://auth.example.com/token">>,
                       <<"refreshUrl", "https://auth.example.com/refresh">> >>,
         scopes |-> Some(<<"read:events", "write">>) ]>>,
     <<"clientCredentials",
       [ stages |-> << <<"tokenUrl", "https://auth.example.com/token">>,
                       <<"refreshUrl", "">> >>,
         scopes |-> None ]>>,
     <<"password",
       [ stages |-> << <<"tokenUrl", "https://auth.example.com/password-token">> >>,
         scopes |-> Some(<<>>) ]>>,
     <<"implicit",
       [ stages |-> << <<"authorizationUrl", "https://auth.example.com/implicit">> >>,
         scopes |-> Some(<<>>) ]>> >>

LookupSchemes ==
  << <<"oAuth", [Scheme("oauth2", "", "", "") EXCEPT !.flows = OAuthFlows]>>,
     <<"basic", Scheme("http", "basic", "", "")>>,
     <<"keyH",  Scheme("apiKey", "", "X-API-KEY", "header")>> >>

\* get /items is getItems with the given security, post /items has no
\* operationId, get /users is getUsers without security of its own and
\* put /users is a second getItems
LookupDocument(globalSecurity, ownSecurity) ==
  [ paths |->
      << << <<"/items">>,
            [ entries |-> << <<"get", [NoOperation EXCEPT !.operationId = Some("getItems"),
                                                         !.security = ownSecurity]>>,
                             <<"post", NoOperation>> >>,
              parameters |-> None, servers |-> None ] >>,
         << <<"/users">>,
            [ entries |-> << <<"get", [NoOperation EXCEPT !.operationId = Some("getUsers")]>>,
                             <<"put", [NoOperation EXCEPT
                                         !.operationId = Some("getItems"),
                                         !.security = Some(<<Requirement(<<"oAuth">>)>>)]>> >>,
              parameters |-> None, servers |-> None ] >> >>,
    security |-> globalSecurity,
    servers |-> None,
    securitySchemes |-> Some(LookupSchemes) ]

LookupDocuments ==
  { LookupDocument(globalSecurity, ownSecurity) :
      globalSecurity \in {None, Some(<<Requirement(<<"keyH">>)>>)},
      ownSecurity \in {None, Some(<<>>), Some(<<Requirement(<<"basic">>)>>)} }

LookupOperationIds == {"getItems", "getUsers", "missing"}

LookupConfigurations ==
  { Configuration([accessToken |-> Some(Literal("12345")),
                   basic |-> << <<"username", Literal("a")>>, <<"password", Literal("abc")>> >>,
                   bearerToken |-> None, apiKey |-> Some(Literal("generic-key")), named |-> None]),
    Configuration([accessToken |-> None, basic |-> <<>>, bearerToken |-> None,
                   apiKey |-> None, named |-> None]),
    [ Configuration([accessToken |-> None,
                     basic |-> << <<"username", Literal("a")>>, <<"password", Literal("abc")>> >>,
                     bearerToken |-> None, apiKey |-> None, named |-> None])
        EXCEPT !.basePath = None ],
    Configuration([accessToken |-> Some(Literal("12345")),
                   basic |-> << <<"username", Literal("a")>> >>,
                   bearerToken |-> Some(Literal("token")), apiKey |-> Some(Literal("generic-key")),
                   named |-> None]),
    Configuration([accessToken |-> Some(Rejecting("token refresh failed")),
                   basic |-> << <<"username", Literal("a")>>, <<"password", Literal("abc")>> >>,
                   bearerToken |-> None, apiKey |-> Some(Rejecting("key lookup failed")),
                   named |-> None]) }

\* the flows and stages the caller asks for: "deviceCode" is no flow of the
\* scheme, "scopes" is a key of the flow whose value is not a string
StageSchemes == {"oAuth", "basic", "nope"}
StageFlows == {"authorizationCode", "clientCredentials", "password", "implicit", "deviceCode"}
StageNames == {"authorizationUrl", "tokenUrl", "refreshUrl", "scopes"}
\* every flow and stage of the oauth2 scheme, one stage of the others
StageRequests ==
  ({"oAuth"} \X StageFlows \X StageNames)
    \cup ((StageSchemes \ {"oAuth"}) \X {"authorizationCode"} \X {"tokenUrl"})

StageArgs ==
  { <<>>,
    JStrings(<< <<"response_type", "code">>, <<"client_id", "abc">>,
                <<"redirect_uri", "https://example.com/redirect">> >>),
    JStrings(<< <<"client_id", "abc">>, <<"response_type", "token">> >>),
    JStrings(<< <<"code", "dummy_code">>, <<"grant_type", "authorization_code">>,
                <<"code_verifier", "something">>, <<"state", "xyz">> >>),
    JStrings(<< <<"grant_type", "client_credentials">>, <<"scope", "files.read">> >>) }

InitLookup ==
  /\ openApiDescription = None
  /\ dereferencing = <<>>
  /\ configuration \in [{1} -> LookupConfigurations]
  /\ calls = [c \in {1} |-> IdleCall]

NextLookup ==
  \/ \E document \in LookupDocuments : setOpenapiSpec(document)
  \/ \E i \in DOMAIN dereferencing : DereferenceResolves(i)
  \/ \E i \in DOMAIN dereferencing : DereferenceRejects(i)
  \/ \E config \in LookupConfigurations : NewConfiguration(1, config)
  \/ \E c \in DOMAIN calls, operationId \in LookupOperationIds :
       executeOperation(c, 1, operationId, <<>>, NoOptions)
  \/ \E c \in DOMAIN calls, request \in StageRequests,
        args \in StageArgs, randomBytes \in RandomBytes :
       executeSecuritySchemeStage(c, request[1], request[2], request[3], 1, args, randomBytes)
  \/ \E c \in DOMAIN calls : setSecurityFromSecurityRequirement(c)
  \/ \E c \in DOMAIN calls : addParameters(c)
  \/ \E c \in DOMAIN calls : sendRequest(c)
  \/ \E c \in DOMAIN calls : TransportResponds(c)
  \/ \E c \in DOMAIN calls : TransportFails(c)
  \/ \E c \in DOMAIN calls : Return(c)

SpecLookup == InitLookup /\ [][NextLookup]_vars

-----------------------------------------------------------------------------
(* SpecRequest: one operation, createItem under post /items, secured by the   *)
(* header api key, declaring the header parameter X-Trace and the query       *)
(* parameter q and a request body of several content types; the caller sets   *)
(* baseOptions in the configuration and passes options with the call.         *)

RequestBodies ==
  { None, Some(<<>>), Some(<<FORM_CONTENT_TYPE>>), Some(<<JSON_CONTENT_TYPE>>),
    Some(<<FORM_CONTENT_TYPE, JSON_CONTENT_TYPE>>), Some(<<"text/plain">>),
    Some(<<"text/plain", FORM_CONTENT_TYPE>>) }

RequestDocument(requestBody) ==
  [ paths |-> << << <<"/items">>,
                    [ entries |-> << <<"post", [NoOperation EXCEPT
                          !.operationId = Some("createItem"),
                          !.parameters = Some(<<Parameter("X-Trace", "header", FALSE),
                                                Parameter("q", "query", FALSE)>>),
                          !.requestBody = requestBody]>> >>,
                      parameters |-> None, servers |-> None ] >> >>,
    security |-> Some(<<Requirement(<<"keyH">>)>>),
    servers |-> None,
    securitySchemes |-> Some(SecuritySchemeDefinitions) ]

RequestDocuments == {RequestDocument(requestBody) : requestBody \in RequestBodies}

RequestArgs ==
  { <<>>,
    << <<"X-Trace", JString("t1")>> >>,
    << <<"note", JString("a b")>> >>,
    << <<"tags", JArray(<<>>)>> >>,
    << <<"note", JString("a b")>>, <<"tags", JArray(<<JNumber("1")>>)>> >>,
    << <<"X-Trace", JString("t1")>>, <<"q", JNumber("1")>>, <<"note", JString("a b")>> >> }

\* configuration.baseOptions
RequestBaseOptions ==
  {None} \cup
  { Some([headers |-> headers, rest |-> rest]) :
      headers \in { None,
                    Some(<< <<"X-API-KEY", "base-key">>, <<"X-Base", "b">> >>),
                    Some(<< <<"Content-Type", "text/plain">>, <<"X-Trace", "base-trace">> >>) },
      rest \in { <<>>, << <<"timeout", "5">> >>,
                 << <<"method", "put">>, <<"timeout", "5">> >> } }

\* the options argument of executeOperation
RequestOptions ==
  { [headers |-> headers, rest |-> rest] :
      headers \in { None,
                    Some(<< <<"X-API-KEY", "call-key">>, <<"X-Trace", "call-trace">> >>),
                    Some(<< <<"Content-Type", "text/csv">> >>) },
      rest \in { <<>>, << <<"timeout", "9">> >>, << <<"method", "patch">> >>,
                 << <<"data", "raw">> >> } }

RequestConfigurations ==
  {[ParameterConfiguration EXCEPT !.baseOptions = baseOptions] : baseOptions \in RequestBaseOptions}

InitRequest ==
  /\ openApiDescription = None
  /\ dereferencing = <<>>
  /\ configuration \in [{1} -> RequestConfigurations]
  /\ calls = [c \in {1} |-> IdleCall]

NextRequest ==
  \/ \E document \in RequestDocuments :
       ~IsSome(openApiDescription) /\ dereferencing = <<>> /\ setOpenapiSpec(document)
  \/ \E i \in DOMAIN dereferencing : DereferenceResolves(i)
  \/ \E c \in DOMAIN calls, args \in RequestArgs, options \in RequestOptions :
       executeOperation(c, 1, "createItem", args, options)
  \/ \E c \in DOMAIN calls : setSecurityFromSecurityRequirement(c)
  \/ \E c \in DOMAIN calls : addParameters(c)
  \/ \E c \in DOMAIN calls : sendRequest(c)
  \/ \E c \in DOMAIN calls : TransportResponds(c)
  \/ \E c \in DOMAIN calls : Return(c)

SpecRequest == InitRequest /\ [][NextRequest]_vars

-----------------------------------------------------------------------------
(* SpecBasePath: getItems under get /items/{id} and getUsers under get /users; *)
(* the operation getItems, its path item and the document declare servers or  *)
(* not, and the caller's configuration object has no basePath, an empty one   *)
(* or one of its own.  The caller makes a first call in slot 1 and, once it   *)
(* has settled, a second call in slot 2 with the same configuration object.   *)

Server(url, variables) == [url |-> url, variables |-> variables]

BasePathDocument(operationServers, pathItemServers, globalServers) ==
  [ paths |->
      << << <<"/items/", "{id}">>,
            [ entries |-> << <<"get", [NoOperation EXCEPT
                                         !.operationId = Some("getItems"),
                                         !.parameters = Some(<<Parameter("id", "path", TRUE),
                                                               Parameter("q", "query", FALSE)>>),
                                         !.servers = operationServers]>> >>,
              parameters |-> None, servers |-> pathItemServers ] >>,
         << <<"/users">>,
            [ entries |-> << <<"get", [NoOperation EXCEPT
                                         !.operationId = Some("getUsers"),
                                         !.parameters = Some(<<Parameter("q", "query", FALSE)>>)]>> >>,
              parameters |-> None, servers |-> None ] >> >>,
    security |-> Some(<<Requirement(<<"keyH">>)>>),
    servers |-> globalServers,
    securitySchemes |-> Some(LookupSchemes) ]

BasePathDocuments ==
  { BasePathDocument(operationServers, pathItemServers, globalServers) :
      operationServers \in
        {None, Some(<<>>), Some(<<Server(<<"https://op.example.com">>, None)>>)},
      pathItemServers \in
        {None, Some(<<Server(<<"https://path.example.com", "/", "/">>, None)>>)},
      globalServers \in
        { None, Some(<<>>),
          Some(<<Server(<<"https://", "{env}", ".example.com", "/">>,
                        Some(<< <<"env", "prod">> >>)),
                 Server(<<"https://second.example.com">>, None)>>),
          Some(<<Server(<<"https://api.example.com", "/", "{base}", "/">>,
                        Some(<< <<"base", "">> >>))>>),
          Some(<<Server(<<"https://api.example.com", "{root}">>,
                        Some(<< <<"root", "/">> >>))>>) } }

\* the caller's configuration objects, by the basePath they set
BasePathConfigurations ==
  { [ creds |-> << <<"apiKey", Function("key-for")>> >>,
      basePath |-> basePath, baseOptions |-> None ] :
      basePath \in {None, Some(<<>>), Some(<<"https://caller.example.com">>)} }

BasePathArgs ==
  { << <<"id", JNumber("7")>> >>,
    << <<"id", JNumber("7")>>, <<"q", JString("a b")>> >> }

BasePathTokenArgs ==
  JStrings(<< <<"code", "dummy_code">>, <<"grant_type", "authorization_code">> >>)

InitBasePath ==
  /\ openApiDescription = None
  /\ dereferencing = <<>>
  /\ configuration \in [{1} -> BasePathConfigurations]
  /\ calls = [c \in {1, 2} |-> IdleCall]

NextBasePath ==
  \/ \E document \in BasePathDocuments :
       ~IsSome(openApiDescription) /\ dereferencing = <<>> /\ setOpenapiSpec(document)
  \/ \E i \in DOMAIN dereferencing : DereferenceResolves(i)
  \/ \E operationId \in {"getItems", "getUsers"}, args \in BasePathArgs :
       /\ IsSome(openApiDescription)
       /\ calls[2].pc = "idle"
       /\ executeOperation(1, 1, operationId, args, NoOptions)
  \/ \E operationId \in {"getItems", "getUsers"}, args \in BasePathArgs :
       /\ calls[1].pc = "done"
       /\ executeOperation(2, 1, operationId, args, NoOptions)
  \/ \E randomBytes \in RandomBytes :
       /\ calls[1].pc = "done"
       /\ executeSecuritySchemeStage(2, "oAuth", "authorizationCode", "tokenUrl", 1,
                                     BasePathTokenArgs, randomBytes)
  \/ \E c \in DOMAIN calls : setSecurityFromSecurityRequirement(c)
  \/ \E c \in DOMAIN calls : addParameters(c)
  \/ \E c \in DOMAIN calls : sendRequest(c)
  \/ \E c \in DOMAIN calls : TransportResponds(c)
  \/ \E c \in DOMAIN calls : TransportFails(c)

SpecBasePath == InitBasePath /\ [][NextBasePath]_vars

\* the same calls on a configuration object to which the caller supplies no
\* basePath
InitReusedConfiguration ==
  /\ InitBasePath
  /\ \A ref \in DOMAIN configuration : configuration[ref].basePath = None

SpecReusedConfiguration == InitReusedConfiguration /\ [][NextBasePath]_vars

-----------------------------------------------------------------------------
(* SpecMerge: one operation, getItem under get /items/{id}, with parameters   *)
(* of its own and a path item whose parameters are a list of up to            *)
(* MaxParameters descriptors; the descriptors of one name and location differ *)
(* in `required`.                                                             *)

MergeDescriptors ==
  { Parameter("id", "path", TRUE), Parameter("id", "path", FALSE),
    Parameter("id", "query", FALSE), Parameter("q", "query", FALSE),
    Parameter("q", "query", TRUE) }

MergePathItemParameters ==
  {None} \cup {Some(parameters) : parameters \in SeqsUpTo(MergeDescriptors, MaxParameters)}

MergeOperationParameters ==
  { None, Some(<<>>),
    Some(<<Parameter("id", "path", TRUE)>>),
    Some(<<Parameter("id", "path", TRUE), Parameter("q", "query", FALSE)>>),
    Some(<<Parameter("q", "query", TRUE), Parameter("id", "query", FALSE)>>) }

MergeDocument(operationParameters, pathItemParameters) ==
  [ paths |-> << << <<"/items/", "{id}">>,
                    [ entries |-> << <<"get", [NoOperation EXCEPT
                          !.operationId = Some("getItem"),
                          !.parameters = operationParameters]>> >>,
                      parameters |-> pathItemParameters, servers |-> None ] >> >>,
    security |-> None,
    servers |-> None,
    securitySchemes |-> None ]

InitMerge ==
  /\ openApiDescription = None
  /\ dereferencing = <<>>
  /\ configuration = [ref \in {1} |-> ParameterConfiguration]
  /\ calls = [c \in {1} |-> IdleCall]

NextMerge ==
  \/ \E operationParameters \in MergeOperationParameters,
        pathItemParameters \in MergePathItemParameters :
       /\ ~IsSome(openApiDescription) /\ dereferencing = <<>>
       /\ setOpenapiSpec(MergeDocument(operationParameters, pathItemParameters))
  \/ \E i \in DOMAIN dereferencing : DereferenceResolves(i)
  \/ \E c \in DOMAIN calls :
       executeOperation(c, 1, "getItem", << <<"id", JNumber("7")>> >>, NoOptions)
  \/ \E c \in DOMAIN calls : addParameters(c)
  \/ \E c \in DOMAIN calls : sendRequest(c)
  \/ \E c \in DOMAIN calls : TransportResponds(c)

SpecMerge == InitMerge /\ [][NextMerge]_vars

-----------------------------------------------------------------------------
(* SpecConcurrent: two executeOperation calls on one executor that may be     *)
(* started at any time and whose awaits interleave freely; the caller passes  *)
(* each call one of two configuration objects, neither with a basePath.       *)

InitConcurrent ==
  /\ openApiDescription = None
  /\ dereferencing = <<>>
  /\ configuration \in [{1, 2} -> {config \in BasePathConfigurations : config.basePath = None}]
  /\ calls = [c \in {1, 2} |-> IdleCall]

NextConcurrent ==
  \/ \E document \in BasePathDocuments :
       ~IsSome(openApiDescription) /\ dereferencing = <<>> /\ setOpenapiSpec(document)
  \/ \E i \in DOMAIN dereferencing : DereferenceResolves(i)
  \/ \E c \in DOMAIN calls, ref \in DOMAIN configuration,
        operationId \in {"getItems", "getUsers"}, args \in BasePathArgs :
       /\ IsSome(openApiDescription)
       /\ executeOperation(c, ref, operationId, args, NoOptions)
  \/ \E c \in DOMAIN calls : setSecurityFromSecurityRequirement(c)
  \/ \E c \in DOMAIN calls : addParameters(c)
  \/ \E c \in DOMAIN calls : sendRequest(c)
  \/ \E c \in DOMAIN calls : TransportResponds(c)
  \/ \E c \in DOMAIN calls : TransportFails(c)

SpecConcurrent == InitConcurrent /\ [][NextConcurrent]_vars

-----------------------------------------------------------------------------
(* SpecUrlString: jsonParamsToUrlString on its own.  The argument is an object *)
(* of up to MaxNodes nested values and leaves (and the example of the unit    *)
(* test); calls[c].args holds its entries, calls[c].result the string         *)
(* returned.                                                                  *)

JScalars == {JString("a b"), JNumber("1"), JBoolean("true")}
KeyNames == <<"k1", "k2", "k3", "k4", "k5", "k6">>
Keyed(values) == [i \in DOMAIN values |-> <<KeyNames[i], values[i]>>]

\* the JSON values of exactly n nodes (containers and leaves), and the
\* sequences of values of n nodes together
RECURSIVE ValuesOfSize(_), ForestsOfSize(_)
ValuesOfSize(n) ==
  IF n = 0 THEN {}
  ELSE (IF n = 1 THEN JScalars ELSE {})
       \cup {JArray(f) : f \in ForestsOfSize(n - 1)}
       \cup {JObject(Keyed(f)) : f \in ForestsOfSize(n - 1)}
ForestsOfSize(n) ==
  IF n = 0 THEN {<<>>}
  ELSE UNION { {<<v>> \o f : v \in ValuesOfSize(k), f \in ForestsOfSize(n - k)} : k \in 1..n }

\* test/unit/OpenApiClientUtils.test.ts: the nested value of the unit test
UnitTestParams ==
  << <<"param1", JString("value1")>>,
     <<"param2", JArray(<<JNumber("1"), JNumber("2")>>)>>,
     <<"param3", JObject(<< <<"param4", JBoolean("true")>> >>)>>,
     <<"param5", JArray(<<JObject(<< <<"param6", JString("value6")>> >>)>>)>> >>

UrlStringParams ==
  {UnitTestParams} \cup UNION { {Keyed(f) : f \in ForestsOfSize(n)} : n \in 0..MaxNodes }

InitUrlString ==
  /\ openApiDescription = None
  /\ dereferencing = <<>>
  /\ configuration \in [{1} -> {ParameterConfiguration}]
  /\ calls \in [{1} -> {[IdleCall EXCEPT !.args = params] : params \in UrlStringParams}]

\* a caller's jsonParamsToUrlString(args)
callJsonParamsToUrlString(c) ==
  /\ calls[c].pc = "idle"
  /\ calls' = [calls EXCEPT ![c] =
                [@ EXCEPT !.pc = "done", !.api = "jsonParamsToUrlString",
                          !.status = "resolved",
                          !.result = Some(jsonParamsToUrlString(JObject(calls[c].args)))]]
  /\ UNCHANGED <<openApiDescription, dereferencing, configuration>>

NextUrlString == \E c \in DOMAIN calls : callJsonParamsToUrlString(c)

SpecUrlString == InitUrlString /\ [][NextUrlString]_vars

-----------------------------------------------------------------------------
(* Security negotiation: C1, C5, C6, C7, C8. *)

Started(call) == call.status # "none"
\* the call is past security negotiation and has not been rejected
Negotiated(call) == call.pc \in {"parameters", "assemble", "transport"} \/ call.status = "resolved"

UnsatisfiedSecurityError == "Could not satisfy security requirments with the provided configuration."

\* a credential of the configuration is present
Present(config, key) == \E i \in DOMAIN config.creds : config.creds[i][1] = key

\* the credential predicate of a scheme, as C1 states it
CredentialPredicateHolds(scheme, config) ==
  \/ scheme.type = "oauth2" /\ Present(config, "accessToken")
  \/ scheme.type = "http" /\ scheme.scheme = "basic"
       /\ Present(config, "username") /\ Present(config, "password")
  \/ scheme.type = "http" /\ scheme.scheme = "bearer" /\ Present(config, "bearerToken")
  \/ scheme.type = "apiKey" /\ (Present(config, scheme.name) \/ Present(config, "apiKey"))

FullySatisfiable(requirement, securitySchemes, config) ==
  \A i \in DOMAIN requirement :
    \E d \in DOMAIN securitySchemes :
      /\ securitySchemes[d][1] = requirement[i][1]
      /\ CredentialPredicateHolds(securitySchemes[d][2], config)

\* the alternatives before number k are not fully satisfiable and number k is
FirstSatisfiable(alternatives, securitySchemes, config, k) ==
  /\ k \in DOMAIN alternatives
  /\ FullySatisfiable(alternatives[k], securitySchemes, config)
  /\ \A j \in 1..(k - 1) : ~FullySatisfiable(alternatives[j], securitySchemes, config)

WritesAuthorization(scheme) ==
  \/ scheme.type = "oauth2"
  \/ scheme.type = "http" /\ scheme.scheme \in {"basic", "bearer"}

\* the header names and query keys the schemes of a requirement write to
CredentialHeaders(requirement, securitySchemes) ==
  { "Authorization" : i \in {j \in DOMAIN requirement :
                               WritesAuthorization(MapGet(securitySchemes, requirement[j][1]))} }
  \cup { MapGet(securitySchemes, requirement[i][1]).name :
           i \in {j \in DOMAIN requirement :
                    /\ MapGet(securitySchemes, requirement[j][1]).type = "apiKey"
                    /\ MapGet(securitySchemes, requirement[j][1]).in = "header"} }

CredentialQueryKeys(requirement, securitySchemes) ==
  { MapGet(securitySchemes, requirement[i][1]).name :
      i \in {j \in DOMAIN requirement :
               /\ MapGet(securitySchemes, requirement[j][1]).type = "apiKey"
               /\ MapGet(securitySchemes, requirement[j][1]).in = "query"} }

SchemeAt(call, requirement, i) == MapGet(call.securitySchemes, requirement[i][1])

\* no scheme after number i of the requirement writes the Authorization header
LastAuthorizationWriter(call, requirement, i) ==
  \A j \in (i + 1)..Len(requirement) : ~WritesAuthorization(SchemeAt(call, requirement, j))

\* the access token as C5 states it: configuration.accessToken called with
\* (scheme name, scopes) when it is a function, its value otherwise
AccessTokenFor(config, schemeName, scopes) ==
  LET accessToken == MapGet(config.creds, "accessToken") IN
  IF accessToken.kind = "function"
    THEN accessToken.value \o "(" \o schemeName \o ",[" \o JoinStrings(scopes, " ") \o "])"
    ELSE accessToken.value

HeaderIs(headers, name, value) == MapHas(headers, name) /\ MapGet(headers, name) = value

\* C5 as stated: whenever the chosen requirement names an oauth2 scheme, the
\* Authorization header of the request is 'Bearer ' followed by the access
\* token obtained for that scheme and its scopes.
C5_AsStated ==
  \A c \in DOMAIN calls :
    LET call == calls[c]
        requirement == call.matchingSecurityReq
    IN \A r \in DOMAIN call.sent : \A i \in DOMAIN requirement :
         SchemeAt(call, requirement, i).type = "oauth2" =>
           HeaderIs(call.sent[r].headers, "Authorization",
                    "Bearer " \o AccessTokenFor(configuration[call.cfg],
                                               requirement[i][1], requirement[i][2]))

\* C5 for the last writer: when the chosen requirement names an oauth2 scheme and no
\* later scheme of that requirement writes the Authorization header, the
\* Authorization header negotiation computes, and the one of the request when
\* neither baseOptions nor the per-call options carry one, is 'Bearer '
\* followed by the access token: the result of configuration.accessToken called
\* with (scheme name, the requirement's scopes for it) when it is a function,
\* its value otherwise.
C5_OAuthBearerHeader ==
  \A c \in DOMAIN calls :
    LET call == calls[c]
        requirement == call.matchingSecurityReq
    IN \A i \in DOMAIN requirement :
         ( /\ SchemeAt(call, requirement, i).type = "oauth2"
           /\ LastAuthorizationWriter(call, requirement, i) ) =>
           LET expected == "Bearer " \o AccessTokenFor(configuration[call.cfg],
                                                       requirement[i][1], requirement[i][2])
           IN /\ Negotiated(call) => HeaderIs(call.headerParameters, "Authorization", expected)
              /\ \A r \in DOMAIN call.sent :
                   HeaderIs(call.sent[r].headers, "Authorization", expected)

\* a request was sent for a requirement naming an oauth2 scheme with scopes,
\* the access token being a function
C5_Witness ==
  \E c \in DOMAIN calls :
    LET call == calls[c] IN
      /\ call.sent # <<>>
      /\ \E i \in DOMAIN call.matchingSecurityReq :
           /\ SchemeAt(call, call.matchingSecurityReq, i).type = "oauth2"
           /\ call.matchingSecurityReq[i][2] # <<>>
           /\ LastAuthorizationWriter(call, call.matchingSecurityReq, i)
      /\ MapGet(configuration[call.cfg].creds, "accessToken").kind = "function"

\* C6: when the chosen requirement names an http scheme with scheme 'basic'
\* (and no later scheme of the requirement writes the Authorization header),
\* the Authorization header of the request is 'Basic ' followed by the base64
\* encoding of 'username:password'.
C6_BasicHeaderIsBase64 ==
  \A c \in DOMAIN calls :
    LET call == calls[c]
        config == configuration[call.cfg]
        requirement == call.matchingSecurityReq
    IN \A r \in DOMAIN call.sent : \A i \in DOMAIN requirement :
         ( /\ SchemeAt(call, requirement, i).type = "http"
           /\ SchemeAt(call, requirement, i).scheme = "basic"
           /\ LastAuthorizationWriter(call, requirement, i) ) =>
           HeaderIs(call.sent[r].headers, "Authorization",
                    "Basic " \o Base64Encode(Utf8Bytes(MapGet(config.creds, "username").value)
                                             \o <<58>>
                                             \o Utf8Bytes(MapGet(config.creds, "password").value)))

\* the api key C7 says is used: the entry keyed by the scheme's declared name
\* when present, the generic apiKey entry otherwise
ApiKeyEntry(config, scheme) ==
  IF Present(config, scheme.name) THEN MapGet(config.creds, scheme.name)
                                  ELSE MapGet(config.creds, "apiKey")

ApiKeyValue(config, scheme) ==
  IF ApiKeyEntry(config, scheme).kind = "function"
    THEN ApiKeyEntry(config, scheme).value \o "(" \o scheme.name \o ")"
    ELSE ApiKeyEntry(config, scheme).value

\* the step applies the apiKey scheme `scheme` of the chosen requirement
AppliesApiKey(call, after, scheme) ==
  /\ call.pc = "security" /\ after # call
  /\ call.schemeIdx \in DOMAIN call.matchingSecurityReq
  /\ scheme = SchemeAt(call, call.matchingSecurityReq, call.schemeIdx)
  /\ scheme.type = "apiKey"

\* m2 is m1 with value written under key, nothing else changed
WrittenUnder(m1, m2, key, value) ==
  /\ HeaderIs(m2, key, value)
  /\ \A k \in Range(MapKeys(m1)) \cup Range(MapKeys(m2)) :
       k # key => (MapHas(m1, k) /\ MapHas(m2, k) /\ MapGet(m1, k) = MapGet(m2, k))

\* C7: applying an apiKey scheme of the chosen requirement uses the
\* configuration entry keyed by the scheme's declared name when there is one
\* and the generic apiKey entry otherwise; the resolved value is written under
\* the declared name into the headers when in = 'header' and into the query
\* parameters when in = 'query', the other of the two and the body arguments
\* are left as they were, and a request without arguments has no body.
C7_ApiKeyPlacement ==
  /\ [][ \A c \in DOMAIN calls :
           LET call == calls[c]
               after == calls'[c]
               config == configuration[call.cfg]
           IN \A s \in DOMAIN call.securitySchemes :
                LET scheme == call.securitySchemes[s][2] IN
                ( /\ AppliesApiKey(call, after, scheme)
                  /\ ApiKeyEntry(config, scheme).kind # "rejects" ) =>
                  /\ scheme.in = "header" =>
                       /\ WrittenUnder(call.headerParameters, after.headerParameters,
                                       scheme.name, ApiKeyValue(config, scheme))
                       /\ after.queryParameters = call.queryParameters
                  /\ scheme.in = "query" =>
                       /\ WrittenUnder(call.queryParameters, after.queryParameters,
                                       scheme.name, JString(ApiKeyValue(config, scheme)))
                       /\ after.headerParameters = call.headerParameters
                  /\ after.requestBodyArgs = call.requestBodyArgs
                  /\ after.requestBodyArgs = <<>>
       ]_vars
  /\ [](\A c \in DOMAIN calls : \A r \in DOMAIN calls[c].sent :
          calls[c].requestBodyArgs = <<>> /\ calls[c].sent[r].data = None)

\* a request carries in its X-API-KEY header the key named after the scheme,
\* the configuration holding a generic apiKey as well
C7_Witness ==
  \E c \in DOMAIN calls :
    LET call == calls[c]
        config == configuration[call.cfg]
    IN /\ call.sent # <<>>
       /\ Present(config, "X-API-KEY") /\ Present(config, "apiKey")
       /\ \E i \in DOMAIN call.matchingSecurityReq : call.matchingSecurityReq[i][1] = "keyH"
       /\ HeaderIs(call.sent[1].headers, "X-API-KEY", "named-key(X-API-KEY)")


UnsupportedApiKey(scheme) ==
  /\ scheme.type = "apiKey"
  /\ scheme.in \notin {"header", "query"}

UnsupportedApiKeyError(scheme) ==
  "apiKey security scheme in " \o scheme.in \o " is not supported."

\* the configuration entry the scheme's credential is resolved from
CredentialEntry(config, scheme) ==
  CASE scheme.type = "oauth2" -> MapGet(config.creds, "accessToken")
    [] scheme.type = "apiKey" -> ApiKeyEntry(config, scheme)
    [] scheme.type = "http" /\ scheme.scheme = BEARER_SCHEME_TYPE -> MapGet(config.creds, "bearerToken")
    [] OTHER -> Literal("")

\* C8 as stated: an operation one of whose security alternatives names a
\* defined apiKey scheme located elsewhere than header or query ends rejected
\* with 'apiKey security scheme in {location} is not supported.', whatever the
\* credentials and the other alternatives.
C8_AsStated ==
  \A c \in DOMAIN calls :
    LET call == calls[c] IN
    (call.pc = "done" /\ IsSome(call.security)) =>
      \A k \in DOMAIN Get(call.security) : \A i \in DOMAIN Get(call.security)[k] :
        LET name == Get(call.security)[k][i][1] IN
        (MapHas(call.securitySchemes, name) /\ UnsupportedApiKey(MapGet(call.securitySchemes, name))) =>
          /\ call.status = "rejected"
          /\ call.error = UnsupportedApiKeyError(MapGet(call.securitySchemes, name))

\* C8 (amended): when the requirement negotiation chose names an apiKey scheme
\* located elsewhere than header or query, and the credentials of that scheme
\* and of the schemes before it in the requirement resolve, the call rejects
\* with 'apiKey security scheme in {location} is not supported.' for the first
\* such scheme: parameters are never placed and no request is sent, whatever
\* the declared parameters and the args.
C8_UnsupportedApiKeyLocation ==
  \A c \in DOMAIN calls :
    LET call == calls[c]
        config == configuration[call.cfg]
        requirement == call.matchingSecurityReq
    IN \A i \in DOMAIN requirement :
         ( /\ UnsupportedApiKey(SchemeAt(call, requirement, i))
           /\ \A j \in 1..(i - 1) : ~UnsupportedApiKey(SchemeAt(call, requirement, j))
           /\ \A j \in 1..i : CredentialEntry(config, SchemeAt(call, requirement, j)).kind # "rejects" ) =>
           /\ call.pc \in {"security", "done"}
           /\ call.pc = "security" => call.schemeIdx <= i
           /\ call.sent = <<>>
           /\ call.pc = "done" =>
                /\ call.status = "rejected"
                /\ call.error = UnsupportedApiKeyError(SchemeAt(call, requirement, i))

\* a call given the required argument was rejected for its cookie api key, the
\* chosen requirement applying another scheme first
C8_Witness ==
  \E c \in DOMAIN calls :
    LET call == calls[c] IN
      /\ call.pc = "done" /\ call.status = "rejected"
      /\ call.error = "apiKey security scheme in cookie is not supported."
      /\ call.args # <<>>
      /\ Len(call.matchingSecurityReq) = 2
      /\ call.matchingSecurityReq[2][1] = "keyC"


-----------------------------------------------------------------------------
(* Parameter placement: C9, C10. *)

Min(S) == CHOOSE i \in S : \A j \in S : i <= j

DeclaredParameters(call) == IF IsSome(call.parameters) THEN Get(call.parameters) ELSE <<>>

ArgKeys(call) == Range(MapKeys(call.args))

\* the positions of the required parameters whose name is no key of args
MissingRequired(call) ==
  {i \in DOMAIN DeclaredParameters(call) :
     DeclaredParameters(call)[i].required /\ DeclaredParameters(call)[i].name \notin ArgKeys(call)}

\* the step is the call's addParametersToUrlAndHeader
PlacementStep(call, after) == call.pc = "parameters" /\ after # call

Accumulators(call) ==
  <<call.pathName, call.queryParameters, call.headerParameters, call.requestBodyArgs>>

\* C9: when the operation declares a required parameter whose name is no key
\* of args, placement rejects the call with 'Parameter {name} is required for
\* this operation.', naming the first such parameter in declaration order,
\* and leaves the path, the query parameters, the headers and the body
\* arguments as they were; such a call never sends a request.
C9_RequiredParameter ==
  /\ [][ \A c \in DOMAIN calls :
           LET call == calls[c]
               after == calls'[c]
           IN (PlacementStep(call, after) /\ MissingRequired(call) # {}) =>
                /\ after.pc = "done" /\ after.status = "rejected"
                /\ after.error = "Parameter "
                                   \o DeclaredParameters(call)[Min(MissingRequired(call))].name
                                   \o " is required for this operation."
                /\ Accumulators(after) = Accumulators(call)
                /\ after.sent = <<>>
       ]_vars
  /\ [](\A c \in DOMAIN calls :
          (Started(calls[c]) /\ MissingRequired(calls[c]) # {}) =>
            /\ calls[c].sent = <<>>
            /\ calls[c].pc \notin {"assemble", "transport"}
            /\ calls[c].status # "resolved")

\* a call with an argument was rejected for the second of two required
\* parameters, the first being supplied
C9_Witness ==
  \E c \in DOMAIN calls :
    LET call == calls[c] IN
      /\ call.pc = "done" /\ call.status = "rejected"
      /\ call.error = "Parameter X-Trace is required for this operation."
      /\ Len(DeclaredParameters(call)) = 2
      /\ DeclaredParameters(call)[1].required
      /\ call.args # <<>>

\* how C10 says a key of args is disposed of: by the location of the first
\* declared parameter with that name
Disposition(call, key) ==
  LET named == {i \in DOMAIN DeclaredParameters(call) : DeclaredParameters(call)[i].name = key}
  IN IF named = {} THEN "body"
     ELSE LET in == DeclaredParameters(call)[Min(named)].in IN
          IF in = "header" /\ ToLowerCase(key) \in {"accept", "content-type", "authorization"}
            THEN "dropped"
            ELSE in

Disposed(call, way) == {key \in ArgKeys(call) : Disposition(call, key) = way}

Unsupported(call) ==
  {i \in DOMAIN call.args :
     Disposition(call, call.args[i][1]) \notin {"query", "path", "header", "dropped", "body"}}

\* the arguments as the texts a header or a path carries
Texts(args) == [i \in DOMAIN args |-> <<args[i][1], ToText(args[i][2])>>]

\* after is before with exactly the keys written under their args value
ExtendedBy(before, after, keys, args) ==
  /\ Range(MapKeys(after)) = Range(MapKeys(before)) \cup keys
  /\ \A k \in Range(MapKeys(after)) :
       MapGet(after, k) = IF k \in keys THEN MapGet(args, k) ELSE MapGet(before, k)

\* C10: placement disposes of every key of args in exactly one way, by the
\* first declared parameter with that name: a query key goes to the query
\* parameters only, a path key replaces every '{name}' token of the path only,
\* a header key goes to the headers only unless its name is accept,
\* content-type or authorization in any case (then it goes nowhere), a key
\* matching no parameter goes to the body arguments only, and any other
\* location rejects the call with 'Parameters with "in" set to {location} are
\* not supported.' for the first such key of args; the request sent carries
\* the placed keys in its url, headers and body accordingly.
C10_ArgumentDisposition ==
  /\ [][ \A c \in DOMAIN calls :
           LET call == calls[c]
               after == calls'[c]
           IN (PlacementStep(call, after) /\ MissingRequired(call) = {}) =>
                IF Unsupported(call) # {}
                  THEN /\ after.pc = "done" /\ after.status = "rejected"
                       /\ after.error = "Parameters with \"in\" set to "
                            \o Disposition(call, call.args[Min(Unsupported(call))][1])
                            \o " are not supported."
                       /\ after.sent = <<>>
                  ELSE /\ after.pc = "assemble"
                       /\ ExtendedBy(call.queryParameters, after.queryParameters,
                                     Disposed(call, "query"), call.args)
                       /\ ExtendedBy(call.headerParameters, after.headerParameters,
                                     Disposed(call, "header"), Texts(call.args))
                       /\ ExtendedBy(call.requestBodyArgs, after.requestBodyArgs,
                                     Disposed(call, "body"), call.args)
                       /\ Len(after.pathName) = Len(call.pathName)
                       /\ \A p \in DOMAIN call.pathName :
                            after.pathName[p] =
                              IF \E key \in Disposed(call, "path") : call.pathName[p] = "{" \o key \o "}"
                                THEN MapGet(Texts(call.args), CHOOSE key \in Disposed(call, "path") :
                                                         call.pathName[p] = "{" \o key \o "}")
                                ELSE call.pathName[p]
       ]_vars
  /\ [](\A c \in DOMAIN calls : \A r \in DOMAIN calls[c].sent :
          LET call == calls[c]
              request == call.sent[r]
          IN /\ Unsupported(call) = {}
             /\ \A key \in ArgKeys(call) :
                  /\ MapHas(request.headers, key) <=> Disposition(call, key) = "header"
                  /\ MapHas(call.queryParameters, key) <=> Disposition(call, key) = "query"
                  /\ MapHas(call.requestBodyArgs, key) <=> Disposition(call, key) = "body"
                  /\ (\E p \in DOMAIN request.url : request.url[p] = MapGet(Texts(call.args), key))
                       <=> Disposition(call, key) = "path"
             /\ IsSome(request.data) <=> Disposed(call, "body") # {}
             /\ request.url[Len(request.url)] =
                  IF call.queryParameters = <<>> THEN call.pathName[Len(call.pathName)]
                  ELSE "?" \o jsonParamsToUrlString(JObject(call.queryParameters))
             /\ IsSome(request.data) => Get(request.data) = JsonStringify(JObject(call.requestBodyArgs)))

\* a request was sent whose two arguments went by the first of two parameters
\* named id: into both tokens of the path, the other argument into the body
C10_Witness ==
  \E c \in DOMAIN calls :
    LET call == calls[c] IN
      /\ call.sent # <<>>
      /\ Len(DeclaredParameters(call)) = 2
      /\ DeclaredParameters(call)[1] = Parameter("id", "path", TRUE)
      /\ DeclaredParameters(call)[2] = Parameter("id", "query", FALSE)
      /\ call.pathName = <<"/items/", "id-v", "/of/", "id-v">>
      /\ MapHas(call.requestBodyArgs, "note")
      /\ call.queryParameters = <<>>


-----------------------------------------------------------------------------
(* The executor's entry points: C2, C3, C4. *)

\* the step starts a call of the public method api in slot c
Starts(c, api) == calls[c].pc = "idle" /\ calls'[c].pc # "idle" /\ calls'[c].api = api

\* the operations of a document with their position, in document order
OperationsOf(document) ==
  UNION { { [path |-> p, entry |-> e, operation |-> document.paths[p][2].entries[e][2]] :
              e \in DOMAIN document.paths[p][2].entries } : p \in DOMAIN document.paths }

OperationsWithId(document, operationId) ==
  {o \in OperationsOf(document) : o.operation.operationId = Some(operationId)}

\* nothing of a request exists: no factory state, no request, no result
NothingBuilt(call) ==
  /\ call.sent = <<>> /\ call.result = None
  /\ call.pathName = <<>> /\ call.pathReqMethod = ""
  /\ call.queryParameters = <<>> /\ call.headerParameters = <<>> /\ call.requestBodyArgs = <<>>
  /\ call.matchingSecurityReq = <<>>

OperationNotFoundError(operationId) ==
  "No OpenApi operation with operationId " \o operationId \o " was found in the spec."

\* C2: an executeOperation call on a loaded description none of whose
\* operations, under any path and method, has the operationId rejects with
\* 'No OpenApi operation with operationId {id} was found in the spec.'; no
\* request is built or sent and the configuration is left as it was.
C2_UnknownOperationId ==
  [][ \A c \in DOMAIN calls :
        ( /\ Starts(c, "executeOperation")
          /\ IsSome(openApiDescription)
          /\ OperationsWithId(Get(openApiDescription), calls'[c].operationId) = {} ) =>
          /\ calls'[c].pc = "done" /\ calls'[c].status = "rejected"
          /\ calls'[c].error = OperationNotFoundError(calls'[c].operationId)
          /\ NothingBuilt(calls'[c])
          /\ configuration' = configuration
    ]_vars

\* executeOperation was rejected for an operationId the loaded description,
\* which has an operation without operationId, does not contain
C2_Witness ==
  \E c \in DOMAIN calls :
    /\ calls[c].pc = "done" /\ calls[c].status = "rejected"
    /\ calls[c].api = "executeOperation"
    /\ IsSome(openApiDescription)
    /\ calls[c].error = "No OpenApi operation with operationId missing was found in the spec."

DescriptionMissingError == "No Openapi description supplied."

\* C3: an executeOperation or executeSecuritySchemeStage call made while no
\* setOpenapiSpec has completed rejects with 'No Openapi description
\* supplied.' with nothing looked up, validated, built or sent; a description
\* once assigned is never removed, and the error arises in no other way.
C3_DescriptionRequired ==
  /\ [][ \A c \in DOMAIN calls :
           ( /\ (Starts(c, "executeOperation") \/ Starts(c, "executeSecuritySchemeStage"))
             /\ ~IsSome(openApiDescription) ) =>
             /\ calls'[c].pc = "done" /\ calls'[c].status = "rejected"
             /\ calls'[c].error = DescriptionMissingError
             /\ NothingBuilt(calls'[c])
             /\ calls'[c].security = None /\ calls'[c].parameters = None
             /\ configuration' = configuration
       ]_vars
  /\ [][ IsSome(openApiDescription) => IsSome(openApiDescription') ]_vars
  /\ [][ \A c \in DOMAIN calls :
           calls'[c].error = DescriptionMissingError =>
             \/ calls[c].error = DescriptionMissingError
             \/ (calls[c].pc = "idle" /\ ~IsSome(openApiDescription))
       ]_vars

\* executeSecuritySchemeStage was rejected for the missing description while
\* a setOpenapiSpec call awaits the dereferenced document
C3_Witness ==
  \E c \in DOMAIN calls :
    /\ calls[c].pc = "done" /\ calls[c].status = "rejected"
    /\ calls[c].api = "executeSecuritySchemeStage"
    /\ calls[c].error = "No Openapi description supplied."
    /\ ~IsSome(openApiDescription)
    /\ dereferencing # <<>>

\* the first operation with the operationId, in document order
FirstOperationWithId(document, operationId) ==
  CHOOSE o \in OperationsWithId(document, operationId) :
    \A other \in OperationsWithId(document, operationId) :
      o.path < other.path \/ (o.path = other.path /\ o.entry <= other.entry)

\* C4: the security requirements of the operation executeOperation resolves
\* are the operation's own list when it declares one, the empty list included,
\* and exactly the document's global list when it declares none.
C4_SecurityInheritance ==
  [][ \A c \in DOMAIN calls :
        ( /\ Starts(c, "executeOperation")
          /\ IsSome(openApiDescription)
          /\ OperationsWithId(Get(openApiDescription), calls'[c].operationId) # {} ) =>
          LET document == Get(openApiDescription)
              operation == FirstOperationWithId(document, calls'[c].operationId).operation
          IN /\ ~IsSome(operation.security) => calls'[c].security = document.security
             /\ IsSome(operation.security) => calls'[c].security = operation.security
    ]_vars

\* getUsers, which declares no security, was sent with the api key of the
\* global list while getItems of the same description declares an empty list
C4_Witness ==
  \E c \in DOMAIN calls :
    /\ calls[c].operationId = "getUsers"
    /\ calls[c].sent # <<>>
    /\ calls[c].security = Some(<<Requirement(<<"keyH">>)>>)
    /\ HeaderIs(calls[c].sent[1].headers, "X-API-KEY", "generic-key")
    /\ IsSome(openApiDescription)
    /\ Get(openApiDescription) = LookupDocument(Some(<<Requirement(<<"keyH">>)>>), Some(<<>>))


-----------------------------------------------------------------------------
(* Serialisation: C11. *)

\* the call in slot c is a finished jsonParamsToUrlString(args)
UrlStringOf(c) ==
  IF calls[c].api = "jsonParamsToUrlString" /\ calls[c].pc = "done"
    THEN calls[c].result ELSE None

\* how C11 says the pairs of a container are written: one 'key=value' per
\* scalar leaf in encounter order, prefix being the key text down to the
\* container ("" for the top-level object)
RECURSIVE LeafPairs(_, _)
LeafPairs(container, prefix) ==
  LET Segment(i) == IF prefix = "" THEN container.items[i][1]
                    ELSE prefix \o "[" \o container.items[i][1] \o "]"
      PairsOf(i) ==
        LET value == container.items[i][2] IN
        IF value.type \in {"array", "object"} THEN LeafPairs(value, Segment(i))
        ELSE IF container.type = "array"
          THEN << prefix \o "[]=" \o encodeURIComponent(value.text) >>
          ELSE << Segment(i) \o "=" \o encodeURIComponent(value.text) >>
      Upto[i \in 0..Len(container.items)] ==
        IF i = 0 THEN <<>> ELSE Upto[i - 1] \o PairsOf(i)
  IN Upto[Len(container.items)]

\* an array or object without entries somewhere below the top level
RECURSIVE HasEmptyContainer(_)
HasEmptyContainer(container) ==
  \E i \in DOMAIN container.items :
    LET value == container.items[i][2] IN
      /\ value.type \in {"array", "object"}
      /\ (value.items = <<>> \/ HasEmptyContainer(value))

\* C11: jsonParamsToUrlString of a nested JSON value yields exactly one
\* 'key=value' pair per scalar leaf, joined by '&' in encounter order; the key
\* is the top-level key followed by one bracketed segment per nesting level
\* (the sub-key under an object, the position index for an object or array
\* nested inside an array, '[]' for a scalar directly inside an array); only
\* the value is percent-encoded.
C11_AsStated ==
  \A c \in DOMAIN calls :
    IsSome(UrlStringOf(c)) =>
      Get(UrlStringOf(c)) = JoinStrings(LeafPairs(JObject(calls[c].args), ""), "&")

\* the same for arguments in which every nested array and object has an entry
C11_WithoutEmptyContainers ==
  \A c \in DOMAIN calls :
    (IsSome(UrlStringOf(c)) /\ ~HasEmptyContainer(JObject(calls[c].args))) =>
      Get(UrlStringOf(c)) = JoinStrings(LeafPairs(JObject(calls[c].args), ""), "&")

\* {k1: [], k2: true} has been serialised, to a string that starts with the
\* separator
C11_Witness ==
  \E c \in DOMAIN calls :
    /\ calls[c].args = << <<"k1", JArray(<<>>)>>, <<"k2", JBoolean("true")>> >>
    /\ UrlStringOf(c) = Some("&k2=true")

\* the value of the unit test has been serialised to the string the test expects
C11_UnitTest ==
  \E c \in DOMAIN calls :
    /\ calls[c].args = UnitTestParams
    /\ UrlStringOf(c) =
         Some("param1=value1&param2[]=1&param2[]=2&param3[param4]=true&param5[0][param6]=value6")


-----------------------------------------------------------------------------
(* Request assembly: C12, C13, C14, C16. *)

\* the requests the executeOperation call in slot c has handed to the transport
RequestsOf(c) ==
  IF calls[c].api = "executeOperation" THEN Range(calls[c].sent) ELSE {}

\* the operation's request body declares the form type and not the JSON type
DeclaresFormOnly(call) ==
  /\ IsSome(call.requestBody)
  /\ \E i \in DOMAIN Get(call.requestBody) :
       Get(call.requestBody)[i] = "application/x-www-form-urlencoded"
  /\ \A i \in DOMAIN Get(call.requestBody) :
       Get(call.requestBody)[i] # "application/json"

\* the bracket-notation pairs of the body-argument bag joined with '&'
FormEncoded(bag) == JoinStrings(LeafPairs(JObject(bag), ""), "&")

ChosenContentType(call) ==
  IF DeclaresFormOnly(call) THEN "application/x-www-form-urlencoded" ELSE "application/json"

\* the request carries a body: data is a string that is not empty
CarriesBody(request) == IsSome(request.data) /\ Get(request.data) # ""

\* the headers the caller supplies: those of baseOptions, then those of options
BaseHeaders(call) ==
  LET baseOptions == configuration[call.cfg].baseOptions
  IN IF IsSome(baseOptions) /\ IsSome(Get(baseOptions).headers)
       THEN Get(Get(baseOptions).headers) ELSE <<>>
CallHeaders(call) == IF IsSome(call.options.headers) THEN Get(call.options.headers) ELSE <<>>

\* the value the caller supplies for a header, the per-call one first
SuppliedHeader(call, name) ==
  IF MapHas(CallHeaders(call), name) THEN Some(MapGet(CallHeaders(call), name))
  ELSE IF MapHas(BaseHeaders(call), name) THEN Some(MapGet(BaseHeaders(call), name))
  ELSE None

BaseRest(call) ==
  LET baseOptions == configuration[call.cfg].baseOptions
  IN IF IsSome(baseOptions) THEN Get(baseOptions).rest ELSE <<>>
CallRest(call) == call.options.rest

\* the value the caller supplies for an option, the per-call one first
SuppliedOption(call, name) ==
  IF MapHas(CallRest(call), name) THEN Some(MapGet(CallRest(call), name))
  ELSE IF MapHas(BaseRest(call), name) THEN Some(MapGet(BaseRest(call), name))
  ELSE None

\* the value of an option of the request handed to the transport
RequestOption(request, name) ==
  IF name = "data" THEN request.data
  ELSE IF MapHas(request.rest, name) THEN Some(MapGet(request.rest, name))
  ELSE None

\* the header and option names a request, its call or its caller mentions
HeaderNames(call, request) ==
  Range(MapKeys(request.headers)) \cup Range(MapKeys(call.headerParameters))
    \cup Range(MapKeys(BaseHeaders(call))) \cup Range(MapKeys(CallHeaders(call)))
OptionNames(call) == Range(MapKeys(BaseRest(call))) \cup Range(MapKeys(CallRest(call)))

\* the value precedence gives a header: options.headers, then
\* baseOptions.headers, then the computed security or parameter header
HeaderByPrecedence(call, name) ==
  IF IsSome(SuppliedHeader(call, name)) THEN SuppliedHeader(call, name)
  ELSE IF MapHas(call.headerParameters, name) THEN Some(MapGet(call.headerParameters, name))
  ELSE None

FinalHeader(request, name) ==
  IF MapHas(request.headers, name) THEN Some(MapGet(request.headers, name)) ELSE None

C16_MethodOfOperation ==
  \A c \in DOMAIN calls : \A request \in RequestsOf(c) :
    /\ calls[c].pathReqMethod = "post"
    /\ RequestOption(request, "method") = Some(calls[c].pathReqMethod)

\* a request for createItem, nested under post, has been sent with the method
\* patch of the per-call options
C16_Witness ==
  \E c \in DOMAIN calls : \E request \in RequestsOf(c) :
    /\ calls[c].operationId = "createItem" /\ calls[c].pathReqMethod = "post"
    /\ MapHas(CallRest(calls[c]), "method")
    /\ RequestOption(request, "method") = Some("patch")

\* the same without a method among the caller's options: the request is a post
C16_WithoutMethodOption ==
  \A c \in DOMAIN calls : \A request \in RequestsOf(c) :
    ~IsSome(SuppliedOption(calls[c], "method")) =>
      RequestOption(request, "method") = Some("post")


-----------------------------------------------------------------------------
(* Base path and URL: C15. *)

\* the servers list of an operation, a path item or the document has a server
HasServers(hasServers) == IsSome(hasServers.servers) /\ Get(hasServers.servers) # <<>>

\* the base path C15 gives a call for operation o (see OperationsOf) of the
\* document with the configuration the caller passes; Supplied says when a
\* basePath counts as supplied
ResolvedBasePath(config, document, o, Supplied(_)) ==
  LET pathItem == document.paths[o.path][2] IN
  IF Supplied(config.basePath) THEN Get(config.basePath)
  ELSE IF HasServers(o.operation) THEN constructBasePath(Get(o.operation.servers))
  ELSE IF HasServers(pathItem) THEN constructBasePath(Get(pathItem.servers))
  ELSE IF HasServers(document) THEN constructBasePath(Get(document.servers))
  ELSE <<>>

\* the step starts an executeOperation call for an operation of the document
\* with the base path ResolvedBasePath gives
StartsWithBasePath(c, Supplied(_)) ==
  ( /\ Starts(c, "executeOperation")
    /\ IsSome(openApiDescription)
    /\ OperationsWithId(Get(openApiDescription), calls'[c].operationId) # {} ) =>
    calls'[c].basePath =
      Some(ResolvedBasePath(configuration[calls'[c].cfg], Get(openApiDescription),
                            FirstOperationWithId(Get(openApiDescription), calls'[c].operationId),
                            Supplied))

\* the path template of the call's operation with the tokens of its path
\* arguments replaced
SubstitutedPath(call) ==
  LET template == Get(openApiDescription).paths[
                    FirstOperationWithId(Get(openApiDescription), call.operationId).path][1]
      texts == Texts(call.args)
  IN [i \in DOMAIN template |->
        IF \E key \in Disposed(call, "path") : template[i] = "{" \o key \o "}"
          THEN MapGet(texts, CHOOSE key \in Disposed(call, "path") : template[i] = "{" \o key \o "}")
          ELSE template[i]]

\* the url of every request is base path, substituted path and, when the
\* query string is not empty, '?' and the query string
UrlIsBasePathPathAndQuery ==
  \A c \in DOMAIN calls : \A request \in RequestsOf(c) :
    LET call == calls[c]
        query == FormEncoded(call.queryParameters)
    IN request.url = Get(call.basePath) \o SubstitutedPath(call)
                       \o (IF query # "" THEN <<"?" \o query>> ELSE <<>>)

IsSupplied(basePath) == IsSome(basePath)
IsSuppliedAndNotEmpty(basePath) == IsSome(basePath) /\ Get(basePath) # <<>>

-----------------------------------------------------------------------------
(* Repeated calls: C20. *)

\* the calls in slots 1 and 2 were made with identical operationId,
\* configuration object, args and options
IdenticalInputs(first, second) ==
  /\ first.api = "executeOperation" /\ second.api = "executeOperation"
  /\ first.operationId = second.operationId
  /\ first.cfg = second.cfg
  /\ first.args = second.args
  /\ first.options = second.options

\* C20: calling executeOperation twice in sequence with identical
\* operationId, configuration, args and options against the same loaded
\* document produces identical request descriptors: same URL, method,
\* headers and body.  (Slot 2 is only used after the call in slot 1 has
\* settled; the credential functions of the model are deterministic.)
C20_Idempotence ==
  (IdenticalInputs(calls[1], calls[2]) /\ calls[1].sent # <<>> /\ calls[2].sent # <<>>) =>
    calls[1].sent = calls[2].sent

\* two getItems calls with the same arguments have sent their requests, the
\* configuration object having had no basePath before the first: both went
\* to the base path of the operation's servers, with the api key the
\* credential function returned
C20_Witness ==
  /\ IdenticalInputs(calls[1], calls[2])
  /\ calls[1].operationId = "getItems"
  /\ Len(calls[1].sent) = 1 /\ Len(calls[2].sent) = 1
  /\ HasServers(Get(openApiDescription).paths[1][2].entries[1][2])
  /\ configuration[1].basePath = Some(<<"https://op.example.com">>)
  /\ calls[2].sent[1].url = <<"https://op.example.com", "/items/", "7", "?q=a%20b">>
  /\ HeaderIs(calls[2].sent[1].headers, "X-API-KEY", "key-for(X-API-KEY)")

-----------------------------------------------------------------------------
(* Security scheme stages: C17, C18, C19                                      *)

\* the error of the first of the five checks that fails for the scheme, flow
\* and stage asked for, "" when all five pass
StageError(document, scheme, flow, stage) ==
  LET schemes == Get(Coalesce(document.securitySchemes, Some(<<>>)))
      flows == MapGet(schemes, scheme).flows
      stages == MapGet(flows, flow).stages
  IN IF ~MapHas(schemes, scheme)
       THEN "No security scheme called " \o scheme \o " found."
     ELSE IF MapGet(schemes, scheme).type # "oauth2"
       THEN "Execution of " \o MapGet(schemes, scheme).type \o " security schemes is not supported."
     ELSE IF ~MapHas(flows, flow)
       THEN "No flow called " \o flow \o " found in the " \o scheme \o " security scheme."
     ELSE IF ~(\E i \in DOMAIN stages : stages[i][1] = stage /\ stages[i][2] # "")
       THEN "No stage called " \o stage \o " found in " \o flow \o " flow of the "
              \o scheme \o " security scheme."
     ELSE IF stage \notin {"authorizationUrl", "tokenUrl"}
       THEN stage \o " stage found in " \o flow \o " flow of the " \o scheme
              \o " security scheme is not supported."
     ELSE ""

\* C17: with a description loaded, executeSecuritySchemeStage checks in this
\* order that the scheme exists, that its type is oauth2, that the flow exists
\* under the scheme, that the stage is a non-empty string-valued key of the
\* flow and that the stage is authorizationUrl or tokenUrl; the call rejects
\* with the error of the first check that fails, nothing being built or sent,
\* and with none of these errors when all five pass.
C17_StageValidation ==
  [][ \A c \in DOMAIN calls :
        (Starts(c, "executeSecuritySchemeStage") /\ IsSome(openApiDescription)) =>
          LET asked == calls'[c].stage
              StageErrorOf(stage) ==
                StageError(Get(openApiDescription), stage[1], stage[2], stage[3])
          IN IF StageErrorOf(asked) # ""
               THEN /\ calls'[c].pc = "done" /\ calls'[c].status = "rejected"
                    /\ calls'[c].error = StageErrorOf(asked)
                    /\ NothingBuilt(calls'[c])
               ELSE \A other \in StageSchemes \X StageFlows \X StageNames :
                      StageErrorOf(other) # "" => calls'[c].error # StageErrorOf(other)
    ]_vars

\* the refreshUrl of the clientCredentials flow is an empty string: the call
\* was rejected by the fourth check, not by the fifth
C17_Witness ==
  \E c \in DOMAIN calls :
    /\ calls[c].api = "executeSecuritySchemeStage"
    /\ calls[c].status = "rejected"
    /\ calls[c].error = "No stage called refreshUrl found in clientCredentials flow of the oAuth security scheme."
    /\ calls[c].sent = <<>>

\* the stages of the flow a call asks for
StagesAsked(document, asked) ==
  MapGet(MapGet(Get(document.securitySchemes), asked[1]).flows, asked[2]).stages

\* key=value of the authorization url for the key of args, "undefined" being
\* the text of a key args does not have
ArgParameter(args, key) ==
  key \o "=" \o (IF \E i \in DOMAIN args : args[i][1] = key
                   THEN encodeURIComponent(ToText(MapGet(args, key)))
                   ELSE "undefined")

\* what may follow the parameters C18 is about: nothing or a scope parameter
ScopeTails == {"", "&scope=", "&scope=read%3Aevents%20write"}

\* C18: for stage authorizationUrl the call resolves at once with
\* {codeVerifier, authorizationUrl} and no request is ever handed to the
\* transport; authorizationUrl is the flow's authorizationUrl, '?', then
\* redirect_uri, client_id and response_type of args in that order, followed
\* by code_challenge_method=S256 and code_challenge=base64url(sha256(the
\* returned codeVerifier)) exactly when args.response_type is 'code'.
C18_AuthorizationUrlStage ==
  /\ [][ \A c \in DOMAIN calls :
           ( /\ Starts(c, "executeSecuritySchemeStage") /\ IsSome(openApiDescription)
             /\ calls'[c].stage[3] = "authorizationUrl"
             /\ StageError(Get(openApiDescription), calls'[c].stage[1], calls'[c].stage[2],
                           calls'[c].stage[3]) = "" ) =>
             LET call == calls'[c]
                 head == MapGet(StagesAsked(Get(openApiDescription), call.stage), "authorizationUrl")
                           \o "?" \o ArgParameter(call.args, "redirect_uri")
                           \o "&" \o ArgParameter(call.args, "client_id")
                           \o "&" \o ArgParameter(call.args, "response_type")
                 challenge == "&code_challenge_method=S256&code_challenge="
                                \o base64URLEncode(sha256(Get(call.result).codeVerifier))
             IN /\ call.pc = "done" /\ call.status = "resolved" /\ call.sent = <<>>
                /\ IsSome(call.result)
                /\ DOMAIN Get(call.result) = {"codeVerifier", "authorizationUrl"}
                /\ \E tail \in ScopeTails :
                     Get(call.result).authorizationUrl =
                       head \o (IF ArgParameter(call.args, "response_type") = "response_type=code"
                                  THEN challenge ELSE "") \o tail
       ]_vars
  /\ [](\A c \in DOMAIN calls :
          (calls[c].stage # <<>> /\ calls[c].stage[3] = "authorizationUrl") =>
            calls[c].pc = "done" /\ calls[c].sent = <<>>)

\* an authorization url with a code challenge was returned
C18_Witness ==
  \E c \in DOMAIN calls :
    /\ calls[c].stage = <<"oAuth", "authorizationCode", "authorizationUrl">>
    /\ calls[c].status = "resolved"
    /\ MapHas(calls[c].args, "response_type")
    /\ MapGet(calls[c].args, "response_type") = JString("code")
    /\ MapGet(calls[c].args, "redirect_uri") = JString("https://example.com/redirect")
    /\ Get(calls[c].result).codeVerifier = "AAECAwQFBgcICQoLDA0ODxAREhMUFRYXGBkaGxwdHh8"

\* the keys the token request of a flow other than clientCredentials places
\* in the query string
TokenQueryKeys ==
  {"code", "grant_type", "refresh_token", "client_id", "client_secret", "redirect_uri",
   "code_verifier"}

IsTokenQueryEntry(entry) == entry[1] \in TokenQueryKeys

HasCredential(config, name) == \E i \in DOMAIN config.creds : config.creds[i][1] = name

\* the calls made for stage tokenUrl that passed the five checks of C17
TokenCalls ==
  { c \in DOMAIN calls : /\ calls[c].stage # <<>> /\ calls[c].stage[3] = "tokenUrl"
                         /\ calls[c].pathReqMethod # "" }

\* C19: for stage tokenUrl the request is built from a POST operation whose
\* path is the flow's literal tokenUrl, with the caller's configuration and
\* args: for flow clientCredentials it requires http basic security, which
\* only a configuration with username and password satisfies, and sends the
\* args form-encoded in the body; for any other flow it carries no credential
\* and places the args code, grant_type, refresh_token, client_id,
\* client_secret, redirect_uri and code_verifier in the query string.  The
\* descriptor a call works with stays the shared one throughout the call.
C19_TokenUrlStage ==
  /\ [][ \A c \in DOMAIN calls :
           ( /\ Starts(c, "executeSecuritySchemeStage") /\ IsSome(openApiDescription)
             /\ calls'[c].stage[3] = "tokenUrl"
             /\ StageError(Get(openApiDescription), calls'[c].stage[1], calls'[c].stage[2],
                           calls'[c].stage[3]) = "" ) =>
             LET call == calls'[c]
                 config == configuration[call.cfg]
             IN /\ call.pathReqMethod = "POST"
                /\ call.pathName = <<MapGet(StagesAsked(Get(openApiDescription), call.stage),
                                            "tokenUrl")>>
                /\ call.basePath = config.basePath
                /\ IF call.stage[2] = "clientCredentials"
                     THEN IF HasCredential(config, "username") /\ HasCredential(config, "password")
                            THEN call.pc = "security" /\ call.status = "pending"
                            ELSE /\ call.pc = "done" /\ call.status = "rejected"
                                 /\ call.error = UnsatisfiedSecurityError
                                 /\ call.sent = <<>>
                     ELSE call.pc = "parameters" /\ call.status = "pending"
       ]_vars
  /\ [](\A c \in TokenCalls :
          LET call == calls[c]
              descriptor == IF call.stage[2] = "clientCredentials"
                              THEN clientCredentialsTokenOperationAndPathInfo
                              ELSE pkceOauthOperationAndPathInfo
          IN /\ call.pathReqMethod = descriptor.pathReqMethod
             /\ call.operationId = Get(descriptor.operationId)
             /\ call.security = descriptor.security
             /\ call.parameters = descriptor.parameters
             /\ call.requestBody = descriptor.requestBody
             /\ call.securitySchemes = securityStageOperationSecuritySchemes
             /\ \A r \in DOMAIN call.sent :
                  LET request == call.sent[r]
                      query == FormEncoded(SelectSeq(call.args, IsTokenQueryEntry))
                      target == Get(Coalesce(call.basePath, Some(<<>>)))
                                  \o <<MapGet(StagesAsked(Get(openApiDescription), call.stage),
                                              "tokenUrl")>>
                  IN /\ MapGet(request.rest, "method") = "POST"
                     /\ IF call.stage[2] = "clientCredentials"
                          THEN /\ request.url = target
                               /\ MapHas(request.headers, "Authorization")
                               /\ call.args # <<>> =>
                                    /\ request.data = Some(FormEncoded(call.args))
                                    /\ HeaderIs(request.headers, "Content-Type",
                                                "application/x-www-form-urlencoded")
                          ELSE /\ request.url =
                                    target \o (IF query # "" THEN <<"?" \o query>> ELSE <<>>)
                               /\ ~MapHas(request.headers, "Authorization"))

\* a clientCredentials token request went out with basic credentials and the
\* args form-encoded in its body
C19_Witness ==
  \E c \in TokenCalls :
    /\ calls[c].stage = <<"oAuth", "clientCredentials", "tokenUrl">>
    /\ Len(calls[c].sent) = 1
    /\ calls[c].sent[1].url = <<"https://auth.example.com/token">>
    /\ calls[c].sent[1].data = Some("grant_type=client_credentials&scope=files.read")
    /\ MapHas(calls[c].sent[1].headers, "Authorization")

-----------------------------------------------------------------------------
(* The configuration object across calls: C21, C22                            *)

\* C21: executeOperation does not modify the caller's configuration object:
\* the configuration the factory holds and the caller sees after the call is
\* the one passed in, without a basePath when the caller supplied none, the
\* resolved base path going to the transport wrapper only.
C21_ConfigurationUnmodified ==
  [][ \A c \in DOMAIN calls :
        Starts(c, "executeOperation") => configuration' = configuration ]_vars

\* the first call on a configuration object without basePath has resolved
\* the base path of its operation's servers, and the configuration object
\* now holds it
C21_Witness ==
  /\ calls[1].api = "executeOperation" /\ calls[1].pc = "done" /\ calls[2].pc = "idle"
  /\ calls[1].basePath = Some(<<"https://op.example.com">>)
  /\ configuration[calls[1].cfg].basePath = Some(<<"https://op.example.com">>)

\* the configuration object as a caller who supplies no basePath passes it
WithoutBasePath(config) == [config EXCEPT !.basePath = None]

\* every executeOperation call has the base path its own operation resolves
\* to when no basePath is supplied
OwnBasePathOfOperation ==
  \A c \in DOMAIN calls :
    (calls[c].api = "executeOperation" /\ calls[c].pathReqMethod # "") =>
      calls[c].basePath =
        Some(ResolvedBasePath(WithoutBasePath(configuration[calls[c].cfg]),
                              Get(openApiDescription),
                              FirstOperationWithId(Get(openApiDescription), calls[c].operationId),
                              IsSupplied))

\* every tokenUrl request goes to the flow's literal tokenUrl and its query
TokenUrlWithoutBasePath ==
  \A c \in TokenCalls : \A r \in DOMAIN calls[c].sent :
    LET query == FormEncoded(SelectSeq(calls[c].args, IsTokenQueryEntry))
    IN calls[c].sent[r].url =
         <<MapGet(StagesAsked(Get(openApiDescription), calls[c].stage), "tokenUrl")>>
           \o (IF query # "" THEN <<"?" \o query>> ELSE <<>>)

\* C22: across a sequence of calls that reuse one configuration object to
\* which the caller supplies no basePath, each call's URL depends only on its
\* own inputs: an executeOperation call uses the base path of its own
\* operation's servers, not one an earlier call resolved, and a tokenUrl
\* request goes to the flow's literal tokenUrl with no base path carried over.
C22_CallsAreIndependent == OwnBasePathOfOperation /\ TokenUrlWithoutBasePath

\* after a getItems call on a configuration object without basePath, a
\* getUsers call was sent to the base path of getItems' servers although
\* the document declares global servers
C22_Witness ==
  /\ calls[1].operationId = "getItems" /\ calls[2].operationId = "getUsers"
  /\ HasServers(Get(openApiDescription))
  /\ Len(calls[2].sent) = 1
  /\ calls[2].sent[1].url = <<"https://op.example.com", "/users">>

-----------------------------------------------------------------------------
(* Concurrent calls: C23                                                      *)

\* the call after the loop of setSecurityFromSecurityRequirement has run from
\* scheme number idx on, nothing else running in between
RECURSIVE SecuredAlone(_, _, _)
SecuredAlone(call, config, idx) ==
  IF call.pc = "done" \/ idx > Len(call.matchingSecurityReq) THEN call
  ELSE SecuredAlone(ApplyScheme(call, config, call.matchingSecurityReq[idx][1],
                                call.matchingSecurityReq[idx][2]),
                    config, idx + 1)

\* the request an executeOperation call for an operation of the document
\* hands to the transport when it runs alone, from start to end, on the
\* configuration the caller passes
RequestAlone(document, config, operationId, args, options) ==
  LET operationAndPathInfo == Get(getOperationWithPathInfoMatchingOperationId(document, operationId))
      newConfig == withBasePath(config, operationAndPathInfo, document)
      started == sendOperationRequest("executeOperation", operationAndPathInfo, 1, newConfig,
                   Get(Coalesce(document.securitySchemes, Some(<<>>))), args, options)
      secured == SecuredAlone(started, newConfig, 1)
      f == addParametersToUrlAndHeader(
             [ pathName |-> secured.pathName, queryParameters |-> secured.queryParameters,
               headerParameters |-> secured.headerParameters,
               requestBodyArgs |-> secured.requestBodyArgs, error |-> "" ],
             secured.parameters, secured.args)
  IN AxiosRequest([secured EXCEPT !.pathName = f.pathName,
                                  !.queryParameters = f.queryParameters,
                                  !.headerParameters = f.headerParameters,
                                  !.requestBodyArgs = f.requestBodyArgs], newConfig)

\* every request of call c is the one the call would have sent alone
SendsAsAlone(c) ==
  \A r \in DOMAIN calls[c].sent :
    calls[c].sent[r] = RequestAlone(Get(openApiDescription),
                                    WithoutBasePath(configuration[calls[c].cfg]),
                                    calls[c].operationId, calls[c].args, calls[c].options)

\* C23: for any interleaving of two concurrent calls on one executor at
\* their awaits, the request of each call is the one it would have produced
\* had it run alone; the calls share no mutable state besides the read-only
\* description.
C23_ConcurrentCallsIndependent == \A c \in DOMAIN calls : SendsAsAlone(c)

\* the same for two calls that are given different configuration objects
C23_WithOwnConfigurationObjects ==
  calls[1].cfg # calls[2].cfg => \A c \in DOMAIN calls : SendsAsAlone(c)

\* getItems and getUsers are in flight at the same time on one configuration
\* object; getUsers, started while getItems awaited its api key, was sent to
\* the base path of getItems' servers
C23_Witness ==
  /\ calls[1].operationId = "getItems" /\ calls[2].operationId = "getUsers"
  /\ calls[1].cfg = calls[2].cfg
  /\ calls[1].pc = "security" /\ calls[2].pc = "transport"
  /\ HasServers(Get(openApiDescription))
  /\ calls[2].sent[1].url = <<"https://op.example.com", "/users">>

-----------------------------------------------------------------------------
(* Order of the steps of a call: C24, C25                                     *)

\* the position of an await in the order of createParams and sendRequest
PcRank(pc) ==
  CASE pc = "idle" -> 0 [] pc = "security" -> 1 [] pc = "parameters" -> 2
    [] pc = "assemble" -> 3 [] pc = "transport" -> 4 [] pc = "done" -> 5

\* the errors the operation's parameters and the args make placement raise
PlacementErrors(call) ==
  { "Parameter " \o DeclaredParameters(call)[i].name \o " is required for this operation." :
      i \in MissingRequired(call) }
  \cup { "Parameters with \"in\" set to " \o Disposition(call, call.args[i][1])
           \o " are not supported." : i \in Unsupported(call) }

\* the error security negotiation raises for the call with the
\* configuration, "" when it raises none: no alternative can be satisfied, or
\* a credential of the first satisfiable alternative rejects
NegotiationError(call, config) ==
  LET alternatives == IF IsSome(call.security) THEN Get(call.security) ELSE <<>>
      satisfiable == {k \in DOMAIN alternatives :
                        FullySatisfiable(alternatives[k], call.securitySchemes, config)}
      chosen == alternatives[Min(satisfiable)]
      rejecting == {i \in DOMAIN chosen :
                      CredentialEntry(config, MapGet(call.securitySchemes, chosen[i][1])).kind
                        = "rejects"}
  IN IF alternatives = <<>> THEN ""
     ELSE IF satisfiable = {} THEN UnsatisfiedSecurityError
     ELSE IF rejecting # {}
       THEN CredentialEntry(config, MapGet(call.securitySchemes, chosen[Min(rejecting)][1])).value
     ELSE ""

\* C24: within a call every effect of security negotiation on the
\* accumulators happens before any effect of parameter placement, and
\* assembly completes before the transport is invoked: the call passes its
\* awaits in the order security, parameters, assemble, transport, only the
\* security loop taking several steps, placement touches the accumulators
\* only once negotiation is over and a request is handed over only by the
\* step that follows assembly; so a call whose negotiation raises an error
\* ends with that error even when its placement would raise one too.
C24_NegotiationBeforePlacement ==
  /\ [][ \A c \in DOMAIN calls :
           LET call == calls[c]
               after == calls'[c]
           IN (call.pc # "idle" /\ after # call /\ after.pc # "idle") =>
                /\ PcRank(after.pc) >= PcRank(call.pc)
                /\ PcRank(after.pc) = PcRank(call.pc) => call.pc = "security"
                /\ call.pc = "security" =>
                     /\ after.pc \in {"security", "parameters", "done"}
                     /\ after.pathName = call.pathName
                     /\ after.requestBodyArgs = call.requestBodyArgs
                /\ PlacementStep(call, after) =>
                     /\ after.pc \in {"assemble", "done"}
                     /\ NegotiationError(call, configuration[call.cfg]) = ""
                /\ after.sent # call.sent =>
                     /\ call.pc = "assemble" /\ after.pc = "transport"
                     /\ Len(after.sent) = Len(call.sent) + 1
       ]_vars
  /\ [](\A c \in DOMAIN calls :
          LET call == calls[c]
              error == NegotiationError(call, configuration[call.cfg])
          IN (call.api = "executeOperation" /\ call.pathReqMethod # "" /\ call.status = "rejected"
                /\ error # "") =>
               call.error = error /\ call.sent = <<>>)

\* a call that lacks a required parameter was rejected because its api key
\* function rejected
C24_Witness ==
  \E c \in DOMAIN calls :
    /\ calls[c].status = "rejected"
    /\ calls[c].error = "key lookup failed"
    /\ MissingRequired(calls[c]) # {}
    /\ Unsupported(calls[c]) # {}

\* the scheme whose credential the call awaits at its security step
AwaitedScheme(call) ==
  MapGet(call.securitySchemes, call.matchingSecurityReq[call.schemeIdx][1])

\* the calls that build a request: executeOperation and the tokenUrl stage
RequestCalls ==
  { c \in DOMAIN calls :
      \/ calls[c].api = "executeOperation"
      \/ calls[c].api = "executeSecuritySchemeStage" /\ calls[c].stage[3] = "tokenUrl" }

\* C25: an executeOperation or tokenUrl stage call invokes the transport at
\* most once: exactly once when assembly succeeds, never when validation,
\* negotiation or credential resolution fails; a rejection of a credential
\* function or of the transport settles the call as rejected, and a settled
\* call does nothing more.
C25_TransportAtMostOnce ==
  /\ [](\A c \in RequestCalls :
          LET call == calls[c] IN
          /\ Len(call.sent) <= 1
          /\ (call.pc = "transport" \/ call.status = "resolved") => Len(call.sent) = 1
          /\ PcRank(call.pc) < PcRank("transport") => call.sent = <<>>
          /\ (call.status = "rejected" /\ call.error # "transport error") => call.sent = <<>>)
  /\ [][ \A c \in DOMAIN calls :
           LET call == calls[c]
               after == calls'[c]
           IN /\ (call.pc = "assemble" /\ after # call) =>
                   after.pc = "transport" /\ Len(after.sent) = 1
              /\ (call.pc = "security" /\ after # call /\ configuration' = configuration
                    /\ AwaitedScheme(call).type \in {"oauth2", "apiKey"}
                    /\ CredentialEntry(configuration[call.cfg], AwaitedScheme(call)).kind = "rejects") =>
                   /\ after.pc = "done" /\ after.status = "rejected"
                   /\ after.error = CredentialEntry(configuration[call.cfg], AwaitedScheme(call)).value
                   /\ after.sent = <<>>
              /\ (call.pc = "transport" /\ after # call) =>
                   /\ after.pc = "done" /\ after.sent = call.sent
                   /\ after.status \in {"resolved", "rejected"}
              /\ (call.pc = "done" /\ after # call) => after = IdleCall
       ]_vars

\* a call sent its one request and was rejected by the transport
C25_Witness ==
  \E c \in RequestCalls :
    /\ calls[c].pc = "done" /\ calls[c].status = "rejected"
    /\ calls[c].error = "transport error"
    /\ Len(calls[c].sent) = 1

-----------------------------------------------------------------------------
(* The base path of a servers list: C26                                       *)

\* the text a segmented url stands for
TextOf(segments) == JoinStrings(segments, "")

\* the text of the url ends with a slash
EndsWithSlash(segments) ==
  LET written == SelectSeq(segments, LAMBDA segment : segment # "")
  IN written # <<>> /\ written[Len(written)] = "/"

\* the url with the slashes at the end of its text removed
RECURSIVE WithoutSlashesAtEnd(_)
WithoutSlashesAtEnd(segments) ==
  IF segments # <<>> /\ segments[Len(segments)] \in {"/", ""}
    THEN WithoutSlashesAtEnd(SubSeq(segments, 1, Len(segments) - 1))
    ELSE segments

\* the url of the server with every token of a declared variable replaced by
\* the default of the variable
WithDefaults(server) ==
  LET variables == IF IsSome(server.variables) THEN Get(server.variables) ELSE <<>>
  IN [i \in DOMAIN server.url |->
        IF \E v \in DOMAIN variables : server.url[i] = "{" \o variables[v][1] \o "}"
          THEN variables[CHOOSE v \in DOMAIN variables :
                           server.url[i] = "{" \o variables[v][1] \o "}"][2]
          ELSE server.url[i]]

\* the servers list the base path of operation o is resolved from, <<>> when
\* no level declares one
ServersFor(document, o) ==
  LET pathItem == document.paths[o.path][2] IN
  IF HasServers(o.operation) THEN Get(o.operation.servers)
  ELSE IF HasServers(pathItem) THEN Get(pathItem.servers)
  ELSE IF HasServers(document) THEN Get(document.servers)
  ELSE <<>>

\* the step resolves the base path of call c from a servers list
ResolvesFromServers(c) ==
  /\ Starts(c, "executeOperation")
  /\ IsSome(openApiDescription)
  /\ OperationsWithId(Get(openApiDescription), calls'[c].operationId) # {}
  /\ ~IsSuppliedAndNotEmpty(configuration[calls'[c].cfg].basePath)
  /\ ServersFor(Get(openApiDescription),
                FirstOperationWithId(Get(openApiDescription), calls'[c].operationId)) # <<>>

\* the base path of the step is the first server's url with the defaults in
\* place of the variables and without the slashes at its end, as long as
\* Covered holds of that server
BasePathIsNormalized(c, Covered(_)) ==
  LET server == ServersFor(Get(openApiDescription),
                           FirstOperationWithId(Get(openApiDescription),
                                                calls'[c].operationId))[1]
  IN (ResolvesFromServers(c) /\ Covered(server)) =>
       /\ TextOf(Get(calls'[c].basePath)) = TextOf(WithoutSlashesAtEnd(WithDefaults(server)))
       /\ ~EndsWithSlash(Get(calls'[c].basePath))

AnyServer(server) == TRUE

\* no default value put at the end of the url is empty or ends with a slash
DefaultsLeaveTheEnd(server) ==
  LET stripped == StripTrailingSlashes(server.url)
  IN stripped = <<>> \/ WithDefaults(server)[Len(stripped)] \notin {"", "/"}

\* C26: the base path resolved from a non-empty servers list is the first
\* server's url with every '{variable}' token replaced by the default of the
\* variable and with all trailing slashes removed, so that it never ends
\* with '/'.
C26_BasePathNormalized ==
  [][\A c \in DOMAIN calls : BasePathIsNormalized(c, AnyServer)]_vars

\* the same for servers none of whose defaults, put at the end of the url, is
\* empty or a slash
C26_WithPlainDefaults ==
  [][\A c \in DOMAIN calls : BasePathIsNormalized(c, DefaultsLeaveTheEnd)]_vars

\* a call resolved its base path from the server url
\* 'https://api.example.com{root}' whose variable root has the default '/'
C26_Witness ==
  \E c \in DOMAIN calls :
    /\ calls[c].api = "executeOperation" /\ calls[c].operationId = "getUsers"
    /\ calls[c].basePath = Some(<<"https://api.example.com", "/">>)
    /\ Len(calls[c].sent) = 1
    /\ calls[c].sent[1].url = <<"https://api.example.com", "/", "/users">>

-----------------------------------------------------------------------------
(* The parameters of the resolved operation: C27                              *)

SameNameAndLocation(a, b) == a.name = b.name /\ a.in = b.in

\* the parameters of the operation and of its path item in the document
OwnParameters(document) ==
  Get(Coalesce(document.paths[1][2].entries[1][2].parameters, Some(<<>>)))
PathItemParameters(document) == Get(Coalesce(document.paths[1][2].parameters, Some(<<>>)))

\* the positions of the path-item parameters no operation parameter shares
\* name and location with
Inherited(document) ==
  {j \in DOMAIN PathItemParameters(document) :
     \A i \in DOMAIN OwnParameters(document) :
       ~SameNameAndLocation(OwnParameters(document)[i], PathItemParameters(document)[j])}

\* C27: the parameter list of the resolved operation is the operation's own
\* parameters in order, followed by the path-item parameters, in order, with
\* which no operation parameter shares name and location; no operation
\* parameter is replaced by a path-item parameter, and a path-item parameter
\* that differs in name or location from every operation parameter is there.
C27_ParameterMerge ==
  [][ \A c \in DOMAIN calls :
        (Starts(c, "executeOperation") /\ IsSome(openApiDescription)) =>
          LET document == Get(openApiDescription)
              own == OwnParameters(document)
              merged == Get(calls'[c].parameters)
              inherited == SubSeq(merged, Len(own) + 1, Len(merged))
          IN /\ IsSome(calls'[c].parameters)
             /\ Len(merged) = Len(own) + Cardinality(Inherited(document))
             /\ SubSeq(merged, 1, Len(own)) = own
             /\ \A j \in Inherited(document) :
                  inherited[Cardinality({k \in Inherited(document) : k <= j})]
                    = PathItemParameters(document)[j]
    ]_vars

\* the operation declares id in path as required, its path item declares id
\* in path as optional and q in query: the call works with the operation's id
\* followed by the path item's q
C27_Witness ==
  \E c \in DOMAIN calls :
    /\ calls[c].api = "executeOperation" /\ calls[c].pc = "transport"
    /\ OwnParameters(Get(openApiDescription)) = <<Parameter("id", "path", TRUE)>>
    /\ PathItemParameters(Get(openApiDescription))
         = <<Parameter("id", "path", FALSE), Parameter("q", "query", FALSE)>>
    /\ calls[c].parameters
         = Some(<<Parameter("id", "path", TRUE), Parameter("q", "query", FALSE)>>)

-----------------------------------------------------------------------------
(* The scope parameter of the authorization url: C28                          *)

\* the scope keys the flow a call asks for declares, none when the flow has
\* no scopes map; the second says whether it has one
ScopeKeysAsked(document, asked) ==
  Get(Coalesce(MapGet(MapGet(Get(document.securitySchemes), asked[1]).flows, asked[2]).scopes,
               <<>>))
HasScopesMap(document, asked) ==
  IsSome(MapGet(MapGet(Get(document.securitySchemes), asked[1]).flows, asked[2]).scopes)

\* the authorization url up to the scope parameter
UrlBeforeScope(document, call) ==
  MapGet(StagesAsked(document, call.stage), "authorizationUrl")
    \o "?" \o ArgParameter(call.args, "redirect_uri")
    \o "&" \o ArgParameter(call.args, "client_id")
    \o "&" \o ArgParameter(call.args, "response_type")
    \o (IF ArgParameter(call.args, "response_type") = "response_type=code"
          THEN "&code_challenge_method=S256&code_challenge="
                 \o base64URLEncode(sha256(Get(call.result).codeVerifier))
          ELSE "")

\* the step returns an authorization url that ends with the scope parameter
\* of the flow's scope keys when WithScope holds, and has no scope parameter
\* otherwise
ScopeParameterWhen(c, WithScope(_, _)) ==
  ( /\ Starts(c, "executeSecuritySchemeStage") /\ IsSome(openApiDescription)
    /\ calls'[c].stage[3] = "authorizationUrl"
    /\ StageError(Get(openApiDescription), calls'[c].stage[1], calls'[c].stage[2],
                  calls'[c].stage[3]) = "" ) =>
    LET document == Get(openApiDescription)
        call == calls'[c]
    IN Get(call.result).authorizationUrl =
         UrlBeforeScope(document, call)
           \o (IF WithScope(document, call.stage)
                 THEN "&scope=" \o encodeURIComponent(
                                     JoinStrings(ScopeKeysAsked(document, call.stage), " "))
                 ELSE "")

DeclaresScopeKeys(document, asked) == ScopeKeysAsked(document, asked) # <<>>

\* C28: the authorization url has a scope parameter only if the flow
\* declares scopes: with at least one scope key it ends with scope= and the
\* keys joined by a space, percent-encoded; with no scope keys, the scopes
\* being absent or an empty map, it has no scope parameter.
C28_ScopeOnlyIfDeclared ==
  [][\A c \in DOMAIN calls : ScopeParameterWhen(c, DeclaresScopeKeys)]_vars

\* the same with the scope parameter present whenever the flow has a scopes
\* map, empty or not
C28_ScopeWheneverMapPresent ==
  [][\A c \in DOMAIN calls : ScopeParameterWhen(c, HasScopesMap)]_vars

\* the implicit flow declares an empty scopes map and the authorization url
\* returned for it ends with an empty scope parameter
C28_Witness ==
  \E c \in DOMAIN calls :
    /\ calls[c].stage = <<"oAuth", "implicit", "authorizationUrl">>
    /\ calls[c].status = "resolved"
    /\ Get(calls[c].result).authorizationUrl =
         "https://auth.example.com/implicit?redirect_uri=undefined&client_id=abc&response_type=token&scope="

-----------------------------------------------------------------------------
(* Several schemes in one requirement: C29                                    *)

\* what scheme number i of the chosen requirement writes when it is the only
\* one to write
ContributionAlone(call, config, i) ==
  ApplyScheme([call EXCEPT !.headerParameters = <<>>, !.queryParameters = <<>>],
              config, call.matchingSecurityReq[i][1], call.matchingSecurityReq[i][2])

\* every entry of the bag part is an entry of the bag whole
EntriesKept(part, whole) ==
  \A k \in DOMAIN part : MapHas(whole, part[k][1]) /\ MapGet(whole, part[k][1]) = part[k][2]

\* the credential of scheme number i is in what negotiation computed and in
\* the headers of every request of the call
CarriesCredential(call, config, i) ==
  LET alone == ContributionAlone(call, config, i) IN
    /\ Negotiated(call) =>
          /\ EntriesKept(alone.headerParameters, call.headerParameters)
          /\ EntriesKept(alone.queryParameters, call.queryParameters)
    /\ \A r \in DOMAIN call.sent :
          EntriesKept(alone.headerParameters, call.sent[r].headers)

\* C29: when the chosen requirement names several schemes, the request
\* carries the credential of every one of them; no scheme's contribution is
\* overwritten by another scheme of the same requirement.
C29_EverySchemeContributes ==
  \A c \in DOMAIN calls :
    \A i \in DOMAIN calls[c].matchingSecurityReq :
      CarriesCredential(calls[c], configuration[calls[c].cfg], i)

\* the same for the schemes after which no scheme of the requirement writes
\* the Authorization header, and for those that do not write it
C29_LastAuthorizationWriterContributes ==
  \A c \in DOMAIN calls :
    \A i \in DOMAIN calls[c].matchingSecurityReq :
      ( \/ ~WritesAuthorization(SchemeAt(calls[c], calls[c].matchingSecurityReq, i))
        \/ LastAuthorizationWriter(calls[c], calls[c].matchingSecurityReq, i) ) =>
        CarriesCredential(calls[c], configuration[calls[c].cfg], i)

\* a request was sent for the requirement {oAuth, basic}: its Authorization
\* header is the Basic one and the access token is in no header
C29_Witness ==
  \E c \in DOMAIN calls :
    LET call == calls[c] IN
      /\ call.sent # <<>>
      /\ Len(call.matchingSecurityReq) = 2
      /\ call.matchingSecurityReq[1][1] = "oAuth"
      /\ call.matchingSecurityReq[2][1] = "basic"
      /\ MapGet(call.sent[1].headers, "Authorization") = BasicAuthorization(configuration[call.cfg])
      /\ \A k \in DOMAIN call.sent[1].headers :
           call.sent[1].headers[k][2] #
             MapGet(ContributionAlone(call, configuration[call.cfg], 1).headerParameters,
                    "Authorization")

-----------------------------------------------------------------------------
(* SpecFactory: one OpenApiAxiosParamFactory, post /items/{id}, whose         *)
(* createParams is called again and again.                                    *)

FactoryPathName == <<"/items/", "{id}">>

\* the operation the factory is constructed for: its parameters are optional,
\* it is secured by the header api key or not at all
FactoryOperations ==
  { [ operationId |-> Some("updateItem"), overrideBasePath |-> None,
      pathName |-> FactoryPathName, pathReqMethod |-> "post",
      security |-> security,
      parameters |-> Some(<<Parameter("id", "path", FALSE), Parameter("q", "query", FALSE),
                            Parameter("X-Trace", "header", required)>>),
      requestBody |-> None ] :
      security \in {None, Some(<<Requirement(<<"keyH">>)>>)}, required \in BOOLEAN }

FactoryArgs ==
  { [i \in DOMAIN keys |-> <<keys[i], value>>] :
      keys \in DistinctSeqsUpTo({"id", "q", "X-Trace", "note"}, MaxArgs),
      value \in {JNumber("1"), JNumber("2")} }

\* the constructor of OpenApiAxiosParamFactory: the accumulators are empty,
\* the path is the one of the operation
OpenApiAxiosParamFactory(operationWithPathInfo, ref, securitySchemes) ==
  [ IdleCall EXCEPT
      !.api = "createParams",
      !.cfg = ref,
      !.pathName = operationWithPathInfo.pathName,
      !.pathReqMethod = operationWithPathInfo.pathReqMethod,
      !.security = operationWithPathInfo.security,
      !.parameters = operationWithPathInfo.parameters,
      !.requestBody = operationWithPathInfo.requestBody,
      !.securitySchemes = securitySchemes ]

\* createParams up to its first await: the fields of the factory are what
\* the calls before left in them
createParams(c, args, options) ==
  /\ calls[c].api = "createParams"
  /\ calls[c].pc \in {"idle", "done"}
  /\ calls' = [calls EXCEPT ![c] =
       setSecurityIfNeeded([calls[c] EXCEPT !.status = "pending", !.error = "", !.result = None,
                                            !.args = args, !.options = options],
                           configuration[calls[c].cfg])]
  /\ UNCHANGED <<openApiDescription, dereferencing, configuration>>

\* the tail of createParams: the url and the options are returned
createParamsReturns(c) ==
  /\ calls[c].api = "createParams"
  /\ calls[c].pc = "assemble"
  /\ LET call == calls[c]
         f == [ pathName |-> call.pathName, queryParameters |-> call.queryParameters,
                headerParameters |-> call.headerParameters,
                requestBodyArgs |-> call.requestBodyArgs ]
     IN calls' = [calls EXCEPT ![c] =
          [call EXCEPT !.pc = "done", !.status = "resolved",
                       !.result = Some(createParamsResult(f, call.requestBody, call.pathReqMethod,
                                         configuration[call.cfg].baseOptions, call.options))]]
  /\ UNCHANGED <<openApiDescription, dereferencing, configuration>>

InitFactory ==
  /\ openApiDescription = None
  /\ dereferencing = <<>>
  /\ configuration \in [{1} -> {ParameterConfiguration}]
  /\ calls \in [{1} -> {OpenApiAxiosParamFactory(operation, 1, SecuritySchemeDefinitions) :
                           operation \in FactoryOperations}]

NextFactory ==
  \/ \E c \in DOMAIN calls, args \in FactoryArgs : createParams(c, args, NoOptions)
  \/ \E c \in DOMAIN calls : setSecurityFromSecurityRequirement(c)
  \/ \E c \in DOMAIN calls : addParameters(c)
  \/ \E c \in DOMAIN calls : createParamsReturns(c)

SpecFactory == InitFactory /\ [][NextFactory]_vars

-----------------------------------------------------------------------------
(* A factory used for several calls: C30                                      *)

\* the call a factory ends with when createParams runs on it from start to
\* end
createParamsOn(factory, config, args, options) ==
  LET started == setSecurityIfNeeded([factory EXCEPT !.status = "pending", !.error = "",
                                                      !.result = None,
                                                      !.args = args, !.options = options],
                                     config)
      secured == IF started.pc = "security" THEN SecuredAlone(started, config, 1) ELSE started
      f == addParametersToUrlAndHeader(
             [ pathName |-> secured.pathName, queryParameters |-> secured.queryParameters,
               headerParameters |-> secured.headerParameters,
               requestBodyArgs |-> secured.requestBodyArgs, error |-> "" ],
             secured.parameters, secured.args)
  IN IF secured.pc = "done" THEN secured
     ELSE IF f.error # "" THEN Rejected(secured, f.error)
     ELSE [secured EXCEPT !.pc = "done", !.status = "resolved",
                          !.result = Some(createParamsResult(f, secured.requestBody,
                                            secured.pathReqMethod, config.baseOptions,
                                            secured.options))]

\* the factory of a call as its constructor left it
AsConstructed(call) ==
  OpenApiAxiosParamFactory(
    [ pathName |-> FactoryPathName, pathReqMethod |-> call.pathReqMethod,
      security |-> call.security, parameters |-> call.parameters,
      requestBody |-> call.requestBody ],
    call.cfg, call.securitySchemes)

Outcome(call) == <<call.status, call.error, call.result>>

\* C30: the result of createParams depends only on what the factory was
\* constructed with and on the args and options of the call: every call,
\* the first or a later one, returns what a newly constructed factory returns
\* for those args and options.
C30_CreateParamsKeepsNothing ==
  \A c \in DOMAIN calls :
    (calls[c].api = "createParams" /\ calls[c].pc = "done") =>
      Outcome(calls[c]) =
        Outcome(createParamsOn(AsConstructed(calls[c]), configuration[calls[c].cfg],
                               calls[c].args, calls[c].options))

\* a call with the argument note alone has returned a url with the query
\* parameter q of an earlier call
C30_Witness ==
  \E c \in DOMAIN calls :
    /\ calls[c].api = "createParams"
    /\ calls[c].status = "resolved"
    /\ calls[c].args = << <<"note", JNumber("2")>> >>
    /\ Get(calls[c].result).url = <<"/items/", "{id}", "?q=1">>

====
